---- MODULE Spec2Model ----
(***************************************************************************)
(* Paramount Bank IT log system: the Staff identity store with its OTP     *)
(* authenticator (Staff/views.py, Staff/models.py, Staff/serializer.py)    *)
(* and the ITIssue store with its owner-scoped views (ReportLog/).         *)
(*                                                                         *)
(* One action per HTTP handler.  Every action records the response it      *)
(* returned in resp (with the handler's name) and the mails it handed to   *)
(* send_mail in mails, so that a property can relate a request to its      *)
(* outcome.                                                                *)
(***************************************************************************)
EXTENDS Integers, Sequences, FiniteSets, TLC

VARIABLES
    staff,      \* the Staff table: id -> row
    staffSeq,   \* number of Staff rows ever created (ids are never reused)
    tokens,     \* token pairs issued by RefreshToken.for_user: jti -> claims
    now,        \* timezone.now(), in seconds
    issues,     \* the ITIssue table: id -> row
    issueSeq,   \* number of ITIssue rows ever created
    resp,       \* the response returned by the last step
    mails,      \* the mails handed to send_mail by the last step
    events,     \* the events published to the "notifications" group by the last step
    blacklist,  \* token_blacklist: the jti of every refresh token revoked so far
    inflight    \* per running request: the model instance it read with objects.get()
                \* and has not saved yet

vars == <<staff, staffSeq, tokens, now, issues, issueSeq, resp, mails, events, blacklist,
          inflight>>

-----------------------------------------------------------------------------
(* Bounds of the model *)

MaxStaff == 2
MaxTokens == 1
MaxNow == 301
MaxIssues == 2
MaxRequests == 2

\* Advances of the wall clock between two requests.
TickSteps == {300, 301}

-----------------------------------------------------------------------------
(* Values *)

\* Python's None for a string column, and a key absent from request.data.
None == "None"
Absent == "<absent>"
\* None for a DateTimeField.
NoTime == 0 - 1

\* The requests the server works on at the same time (its worker threads), and
\* a worker that holds no request.
Requests == 1..MaxRequests
Idle == [op |-> "idle"]

STAFF_EMAIL_DOMAIN == "@paramount.co.ke"
IT_SUPPORT_EMAIL == "steveaustine126@gmail.com"
OTP_EXPIRY_SECONDS == 300

ROLE_CHOICES == {"User", "Admin"}
BRANCH_CHOICES == {"Westlands", "Parklands", "Koinange", "Industrial",
                   "Kisumu", "Mombasa", "Eldoret", "Headquarters"}

\* Codes random.randint(100000, 999999) may draw, as formatted by the f-string.
OTPCodes == {"123456", "654321"}
\* Codes a client may submit: the above and one that CharField(max_length=6) rejects.
SubmittedCodes == OTPCodes \cup {"1234567"}

\* Addresses a client may submit: two of the organisation, one of another domain,
\* and one that is no address.
StaffEmails == {"alice@paramount.co.ke", "bob@paramount.co.ke"}
ForeignEmail == "eve@gmail.com"
Malformed == "not-an-email"

\* str.endswith
EndsWith(s, suffix) ==
    /\ Len(s) >= Len(suffix)
    /\ SubSeq(s, Len(s) - Len(suffix) + 1, Len(s)) = suffix

\* serializers.EmailField: one "@" with a local part before and a domain after it.
IsEmail(s) ==
    \E i \in 2..(Len(s) - 1) :
        /\ SubSeq(s, i, i) = "@"
        /\ \A j \in 1..Len(s) : j # i => SubSeq(s, j, j) # "@"

\* serializers.CharField(max_length=6), blank not allowed.
IsOTPField(s) == Len(s) >= 1 /\ Len(s) <= 6

-----------------------------------------------------------------------------
(* Responses *)

NoStaffData == {}
NoTokenData == {}

Response(op, status, detail) ==
    [op |-> op, status |-> status, detail |-> detail, staff |-> NoStaffData,
     tokens |-> NoTokenData, issues |-> {}, choices |-> {}]

\* A serializer whose fields include the otp column.
StaffSerializer_WithOTP(id, s) ==
    [id |-> id, first_name |-> s.first_name, last_name |-> s.last_name,
     email |-> s.email, is_verified |-> s.is_verified, branch |-> s.branch,
     role |-> s.role, otp |-> s.otp]

\* StaffSerializer(staff).data
StaffSerializer(id, s) ==
    [id |-> id, first_name |-> s.first_name, last_name |-> s.last_name,
     email |-> s.email, is_verified |-> s.is_verified, branch |-> s.branch,
     role |-> s.role]

\* One call of send_mail: recipient, template, the code the template carries, and
\* whether the transport accepted it (otherwise send_mail raises).
Mail(to, kind, otp, delivered) ==
    [to |-> to, kind |-> kind, otp |-> otp, delivered |-> delivered]

-----------------------------------------------------------------------------
(* Staff model *)

\* Staff.objects.get(email=...): the ids whose row has that email (unique column).
StaffByEmail(email) == {i \in DOMAIN staff : staff[i].email = email}

\* A save without the domain check.
SaveRaises_Never(s) == FALSE

\* Staff.save: the row as stored, or the ValueError of the domain check.
SaveRaises(s) == ~EndsWith(s.email, STAFF_EMAIL_DOMAIN)

\* A save that leaves is_staff as it is.
SaveRow_Plain(s) == s

SaveRow(s) == IF s.role = "Admin" THEN [s EXCEPT !.is_staff = TRUE] ELSE s

\* The unique constraint on Staff.email, for a row saved under id.
EmailTaken(id, email) == \E j \in DOMAIN staff : j # id /\ staff[j].email = email

Put(f, k, v) == [x \in DOMAIN f \cup {k} |-> IF x = k THEN v ELSE f[x]]
Drop(f, k) == [x \in DOMAIN f \ {k} |-> f[x]]

-----------------------------------------------------------------------------
(* OTP authenticator *)

\* An expiry test that already refuses at 300 seconds.
OTPExpired_Inclusive(created, t) == t - created >= OTP_EXPIRY_SECONDS

\* (timezone.now() - staff.otp_created_at).total_seconds() > 300
OTPExpired(created, t) == t - created > OTP_EXPIRY_SECONDS

\* staff.otp != serializer.validated_data['otp']  (None differs from every str)
OTPMismatch(stored, submitted) == stored = None \/ stored # submitted

\* OTPVerifySerializer / OTPLoginSerializer .is_valid()
OTPVerifySerializer_is_valid(email, otp) == IsEmail(email) /\ IsOTPField(otp)

\* A new code stored without a new otp_created_at.
IssueOTP_KeepsTime(s, code, t) == [s EXCEPT !.otp = code]

\* staff.otp = otp; staff.otp_created_at = timezone.now()
IssueOTP(s, code, t) == [s EXCEPT !.otp = code, !.otp_created_at = t]

\* A verification that keeps the code it accepted.
VerifiedRow_NoClear(s) == SaveRow([s EXCEPT !.is_verified = TRUE])

\* OTPVerifyView: staff.is_verified = True; staff.otp = None; staff.save()
VerifiedRow(s) == SaveRow([s EXCEPT !.is_verified = TRUE, !.otp = None])

\* OTPLoginVerifyView: staff.otp = None; staff.save()
LoggedInRow(s) == SaveRow([s EXCEPT !.otp = None])

\* A login request that ignores is_verified.
LoginRequestRefused_Never(s) == FALSE

\* OTPLoginRequestView: if not staff.is_verified
LoginRequestRefused(s) == ~s.is_verified

\* A token whose role claim is the default role.
TokenFor_DefaultRole(id, s) == [user_id |-> id, role |-> "User"]

\* RefreshToken.for_user(staff) with access_token['role'] = staff.role
TokenFor(id, s) == [user_id |-> id, role |-> s.role]

\* JWTAuthentication.authenticate: the Staff id the bearer token stands for, or 0
\* for a request without a token or whose token names no stored Staff (401).
Authenticate(cred) ==
    IF cred \in 1..Len(tokens) /\ tokens[cred].user_id \in DOMAIN staff
    THEN tokens[cred].user_id
    ELSE 0

\* A permission that lets every authenticated staff member through.
IsAdminRole_Any(uid) == TRUE

\* A permission that trusts the role claim of a token issued to the staff member.
IsAdminRole_FromClaim(uid) ==
    \E j \in 1..Len(tokens) : tokens[j].user_id = uid /\ tokens[j].role = "Admin"

\* IsAdminRole.has_permission, for an authenticated request.user
IsAdminRole(uid) == staff[uid].role = "Admin"

\* data.get(key, default)
Get(value, default) == IF value = Absent THEN default ELSE value

\* A validation without the unique and the domain validators.
StaffRegisterSerializer_is_valid_AnyEmail(table, d) ==
    /\ d.first_name # Absent
    /\ d.last_name # Absent
    /\ d.email # Absent
    /\ IsEmail(d.email)
    /\ d.branch \in BRANCH_CHOICES \cup {Absent}
    /\ d.role \in ROLE_CHOICES \cup {Absent}

\* StaffRegisterSerializer.is_valid(): required names, EmailField, the unique
\* validator of the model field, validate_email, and the two choice fields.
StaffRegisterSerializer_is_valid(table, d) ==
    /\ d.first_name # Absent
    /\ d.last_name # Absent
    /\ d.email # Absent
    /\ IsEmail(d.email)
    /\ \A i \in DOMAIN table : table[i].email # d.email
    /\ EndsWith(d.email, STAFF_EMAIL_DOMAIN)
    /\ d.branch \in BRANCH_CHOICES \cup {Absent}
    /\ d.role \in ROLE_CHOICES \cup {Absent}

\* A creation that marks the row verified.
StaffRegisterSerializer_create_Verified(d) ==
    SaveRow([first_name |-> d.first_name, last_name |-> d.last_name,
             email |-> d.email, is_verified |-> TRUE, otp |-> None,
             otp_created_at |-> NoTime, is_staff |-> FALSE,
             role |-> Get(d.role, "User"),
             branch |-> Get(d.branch, "Headquarters")])

\* StaffRegisterSerializer.create: the row Staff.objects.create inserts.
StaffRegisterSerializer_create(d) ==
    SaveRow([first_name |-> d.first_name, last_name |-> d.last_name,
             email |-> d.email, is_verified |-> FALSE, otp |-> None,
             otp_created_at |-> NoTime,
             is_staff |-> (Get(d.role, "User") = "Admin"),
             role |-> Get(d.role, "User"),
             branch |-> Get(d.branch, "Headquarters")])

-----------------------------------------------------------------------------
(* Inputs *)

\* Registration payloads: any of the addresses, with or without a role.
RegisterData ==
    [first_name : {"Ann"}, last_name : {"Lee"},
     email : StaffEmails \cup {ForeignEmail, Absent},
     branch : {Absent}, role : {Absent, "Admin"}]

\* Update payloads that change the address only.
EmailUpdateData ==
    [first_name : {Absent}, last_name : {Absent},
     email : StaffEmails \cup {ForeignEmail, Absent},
     branch : {Absent}, role : {Absent}]

\* Update payloads that change the address or the role.
UpdateData ==
    [first_name : {Absent}, last_name : {Absent},
     email : StaffEmails \cup {ForeignEmail}, branch : {Absent}, role : {Absent}]
    \cup
    [first_name : {Absent}, last_name : {Absent},
     email : {Absent}, branch : {Absent}, role : {"User", "Admin"}]

\* Addresses submitted to the verification and OTP request endpoints.
VerifyEmails == StaffEmails \cup {Malformed}
RequestEmails == StaffEmails \cup {Absent}

\* Issue payloads: the writable fields, alone or with forged read-only fields.
IssueFields(categories) ==
    [category : categories, issue_title : {"VPN down", Absent},
     issue_description : {"No tunnel"}, priority : {"High"},
     method_of_logging : {"email"}, associated_file : {Absent}]

NoExtras ==
    [status |-> Absent, resolution_date |-> NoTime, work_done |-> Absent,
     submitted_by |-> 0]

Forged(id) ==
    [status |-> "completed", resolution_date |-> 7, work_done |-> "forged",
     submitted_by |-> id]

Merge(f, g) == [k \in DOMAIN f \cup DOMAIN g |-> IF k \in DOMAIN f THEN f[k] ELSE g[k]]

CreateDataOf(categories) ==
    {Merge(f, x) : f \in IssueFields(categories),
                   x \in {NoExtras} \cup {Forged(i) : i \in 1..MaxStaff}}

\* One category; an incomplete payload is sent without extras.
CreateData ==
    {d \in CreateDataOf({"network_issue"}) : d.issue_title = Absent => d.status = Absent}

\* Status updates: a status (or none, or no choice at all) and notes.
StatusDataOf(notes) ==
    [status : {Absent, "in-progress", "completed", "resolved"},
     work_done : notes, recommendation : {Absent}]

StatusData == StatusDataOf({Absent})

\* Field patches: raw request.data, whose other keys the view never reads.
PatchDataOf(priorities) ==
    [category : {Absent}, issue_title : {Absent},
     issue_description : {Absent}, priority : priorities,
     associated_file : {Absent}, method_of_logging : {Absent},
     status : {Absent, "completed"}]

\* A patch of the priority that also carries a status key, or an empty patch.
PatchData ==
    {d \in PatchDataOf({Absent, "Low"}) : d.priority = Absent <=> d.status = Absent}

\* The patches of PatchData and one whose priority is no choice of the model:
\* request.data reaches setattr as it came.
OpenPatchData ==
    PatchData \cup {d \in PatchDataOf({"Urgent"}) : d.status = Absent}

\* The two staff members of the issue store and the code both are sent.
IssueStaffData ==
    [first_name : {"Ann"}, last_name : {"Lee"}, email : StaffEmails,
     branch : {Absent}, role : {Absent}]

IssueCode == "123456"

IssueStaffEmail == "alice@paramount.co.ke"

\* The Authorization header: none (0) or a token pair issued so far.
Creds == 0..Len(tokens)

-----------------------------------------------------------------------------

Init ==
    /\ staff = << >>
    /\ staffSeq = 0
    /\ tokens = << >>
    /\ now = 0
    /\ issues = << >>
    /\ issueSeq = 0
    /\ resp = Response("none", 0, "")
    /\ mails = {}
    /\ events = {}
    /\ blacklist = {}
    /\ inflight = [r \in Requests |-> Idle]

\* The wall clock advances between two requests.
Elapse(steps) ==
    /\ \E d \in steps : now + d <= MaxNow /\ now' = now + d
    /\ UNCHANGED <<staff, staffSeq, tokens, blacklist, inflight, issues, issueSeq, resp, mails, events>>

Tick == Elapse(TickSteps)

\* A handler that returns without writing any table.
Refuse(op, status, detail) ==
    /\ resp' = Response(op, status, detail)
    /\ UNCHANGED <<staff, staffSeq, tokens, blacklist, inflight, issues, issueSeq>>

\* What a Staff handler did: its response and the tables and mails it left.
Result(r, table, seq, toks, sent) ==
    [resp |-> r, staff |-> table, staffSeq |-> seq, tokens |-> toks, mails |-> sent]

\* The ids of table whose row has that email.
HoldersIn(table, email) == {i \in DOMAIN table : table[i].email = email}

HolderIn(table, email) == CHOOSE i \in HoldersIn(table, email) : TRUE

\* StaffRegisterView.post on the Staff table (table, seq)
Register(table, seq, toks, d, code, mail_ok, t) ==
    IF ~StaffRegisterSerializer_is_valid(table, d)
    THEN Result(Response("Register", 400, "validation"), table, seq, toks, {})
    ELSE LET id == seq + 1
             row == SaveRow(IssueOTP(StaffRegisterSerializer_create(d), code, t))
         IN  Result(IF mail_ok
                    THEN [Response("Register", 201, "An OTP has been sent to your email.")
                          EXCEPT !.staff = {StaffSerializer(id, row)}]
                    ELSE Response("Register", 500, "send_mail raised"),
                    Put(table, id, row), id, toks,
                    {Mail(row.email, "otp_register", code, mail_ok)})

\* The checks OTPVerifyView.post and OTPLoginVerifyView.post make before they
\* accept a code: the reason for refusing (status, detail), or status 200.
OTPCheck(table, email, otp, t) ==
    IF ~OTPVerifySerializer_is_valid(email, otp)
    THEN [status |-> 400, detail |-> "validation"]
    ELSE IF HoldersIn(table, email) = {}
    THEN [status |-> 404, detail |-> "Staff not found."]
    ELSE LET s == table[HolderIn(table, email)]
         IN  IF OTPMismatch(s.otp, otp)
             THEN [status |-> 400, detail |-> "Invalid OTP."]
             ELSE IF s.otp_created_at = NoTime
             THEN [status |-> 500, detail |-> "TypeError"]
             ELSE IF OTPExpired(s.otp_created_at, t)
             THEN [status |-> 400, detail |-> "OTP expired."]
             ELSE IF SaveRaises(s)
             THEN [status |-> 500, detail |-> "ValueError"]
             ELSE [status |-> 200, detail |-> ""]

\* A verification that burns the stored code when a wrong one is submitted.
VerifyOTP_BurnsCode(table, seq, toks, email, otp, t) ==
    LET check == OTPCheck(table, email, otp, t)
    IN  IF check.detail = "Invalid OTP."
        THEN LET id == HolderIn(table, email)
             IN  Result(Response("VerifyOTP", 400, check.detail),
                        [table EXCEPT ![id] = [table[id] EXCEPT !.otp = None]],
                        seq, toks, {})
        ELSE IF check.status # 200
        THEN Result(Response("VerifyOTP", check.status, check.detail), table, seq, toks, {})
        ELSE LET id == HolderIn(table, email)
             IN  Result(Response("VerifyOTP", 200, "Email verified."),
                        [table EXCEPT ![id] = VerifiedRow(table[id])], seq, toks, {})

\* OTPVerifyView.post
VerifyOTP(table, seq, toks, email, otp, t) ==
    LET check == OTPCheck(table, email, otp, t)
    IN  IF check.status # 200
        THEN Result(Response("VerifyOTP", check.status, check.detail), table, seq, toks, {})
        ELSE LET id == HolderIn(table, email)
             IN  Result(Response("VerifyOTP", 200, "Email verified."),
                        [table EXCEPT ![id] = VerifiedRow(table[id])], seq, toks, {})

\* OTPLoginRequestView.post
LoginRequest(table, seq, toks, email, code, mail_ok, t) ==
    IF email = Absent
    THEN Result(Response("LoginRequest", 400, "Email is required."), table, seq, toks, {})
    ELSE IF HoldersIn(table, email) = {}
    THEN Result(Response("LoginRequest", 404, "Staff not found."), table, seq, toks, {})
    ELSE LET id == HolderIn(table, email)
             s == table[id]
         IN  IF LoginRequestRefused(s)
             THEN Result(Response("LoginRequest", 403, "Email not verified."),
                         table, seq, toks, {})
             ELSE IF SaveRaises(s)
             THEN Result(Response("LoginRequest", 500, "ValueError"), table, seq, toks, {})
             ELSE Result(IF mail_ok
                         THEN Response("LoginRequest", 200, "OTP sent to email.")
                         ELSE Response("LoginRequest", 500, "send_mail raised"),
                         [table EXCEPT ![id] = SaveRow(IssueOTP(s, code, t))], seq, toks,
                         {Mail(s.email, "otp_login", code, mail_ok)})

\* A resend behind the checks of the login request.
ResendOTP_VerifiedOnly(table, seq, toks, email, code, mail_ok, t) ==
    LoginRequest(table, seq, toks, email, code, mail_ok, t)

\* ResendOTPView.post: no test of is_verified; send_mail is fail_silently=False
\* and runs after staff.save()
ResendOTP(table, seq, toks, email, code, mail_ok, t) ==
    IF email = Absent
    THEN Result(Response("ResendOTP", 400, "Email is required."), table, seq, toks, {})
    ELSE IF HoldersIn(table, email) = {}
    THEN Result(Response("ResendOTP", 404, "Staff not found."), table, seq, toks, {})
    ELSE LET id == HolderIn(table, email)
             s == table[id]
         IN  IF SaveRaises(s)
             THEN Result(Response("ResendOTP", 500, "ValueError"), table, seq, toks, {})
             ELSE Result(IF mail_ok
                         THEN Response("ResendOTP", 200,
                                       "A new OTP has been sent to your email.")
                         ELSE Response("ResendOTP", 500, "send_mail raised"),
                         [table EXCEPT ![id] = SaveRow(IssueOTP(s, code, t))], seq, toks,
                         {Mail(s.email, "otp_register", code, mail_ok)})

\* OTPLoginVerifyView.post
LoginVerifyOTP(table, seq, toks, email, otp, t) ==
    LET check == OTPCheck(table, email, otp, t)
    IN  IF check.status # 200
        THEN Result(Response("LoginVerify", check.status, check.detail), table, seq, toks, {})
        ELSE LET id == HolderIn(table, email)
                 row == LoggedInRow(table[id])
             IN  Result([Response("LoginVerify", 200, "")
                         EXCEPT !.staff = {StaffSerializer(id, row)},
                                !.tokens = {[jti |-> Len(toks) + 1,
                                             claims |-> TokenFor(id, row)]}],
                        [table EXCEPT ![id] = row], seq,
                        Append(toks, TokenFor(id, row)), {})

\* The handler returned o.
Reply(o) ==
    /\ resp' = o.resp
    /\ staff' = o.staff
    /\ staffSeq' = o.staffSeq
    /\ tokens' = o.tokens
    /\ mails' = o.mails
    /\ events' = {}
    /\ UNCHANGED <<now, issues, issueSeq, blacklist, inflight>>

\* POST register/
StaffRegisterView_post(d, code, mail_ok) ==
    LET o == Register(staff, staffSeq, tokens, d, code, mail_ok, now)
    IN  o.staffSeq <= MaxStaff /\ Reply(o)

\* POST verify-otp/
OTPVerifyView_post(email, otp) ==
    Reply(VerifyOTP(staff, staffSeq, tokens, email, otp, now))

\* POST login/request/
OTPLoginRequestView_post(email, code, mail_ok) ==
    Reply(LoginRequest(staff, staffSeq, tokens, email, code, mail_ok, now))

\* POST login/verify/ , issuing at most maxTokens token pairs
LoginVerify(email, otp, maxTokens) ==
    LET o == LoginVerifyOTP(staff, staffSeq, tokens, email, otp, now)
    IN  Len(o.tokens) <= maxTokens /\ Reply(o)

\* POST resend-otp/
ResendOTPView_post(email, code, mail_ok) ==
    Reply(ResendOTP(staff, staffSeq, tokens, email, code, mail_ok, now))

OTPLoginVerifyView_post(email, otp) == LoginVerify(email, otp, MaxTokens)

\* PUT update-credentials/
UpdateUserCredentialsView_put(cred, d, code, mail_ok) ==
    /\ now' = now
    /\ events' = {}
    /\ IF Authenticate(cred) = 0
       THEN mails' = {} /\ Refuse("UpdateCredentials", 401, "not authenticated")
       ELSE LET id == Authenticate(cred)
                user == staff[id]
                new_email == Get(d.email, user.email)
                changed == new_email # user.email
                marked == IF changed
                          THEN [IssueOTP(user, code, now) EXCEPT !.is_verified = FALSE]
                          ELSE user
                row == [marked EXCEPT !.first_name = Get(d.first_name, user.first_name),
                                      !.last_name = Get(d.last_name, user.last_name),
                                      !.email = new_email,
                                      !.branch = Get(d.branch, user.branch),
                                      !.role = Get(d.role, user.role)]
            IN  /\ mails' = IF changed
                            THEN {Mail(new_email, "otp_register", code, mail_ok)}
                            ELSE {}
                /\ IF changed /\ ~mail_ok
                   THEN Refuse("UpdateCredentials", 500, "send_mail raised")
                   ELSE IF SaveRaises(row)
                   THEN Refuse("UpdateCredentials", 500, "ValueError")
                   ELSE IF EmailTaken(id, new_email)
                   THEN Refuse("UpdateCredentials", 500, "IntegrityError")
                   ELSE /\ staff' = [staff EXCEPT ![id] = SaveRow(row)]
                        /\ resp' = Response("UpdateCredentials", 200, "User details updated successfully.")
                        /\ UNCHANGED <<staffSeq, tokens, blacklist, inflight, issues, issueSeq>>

\* A Staff handler answering without touching the store.
Refused(op, status, detail) ==
    Result(Response(op, status, detail), staff, staffSeq, tokens, {})

\* IsAuthenticated and IsAdminRole turning the request of uid away (0: no
\* valid token), before the handler runs.
Denied(op, uid) ==
    IF uid = 0
    THEN Refused(op, 401, "not authenticated")
    ELSE Refused(op, 403, "permission denied")

\* The permission classes of the admin views let the request of uid through.
Permitted(uid) == uid # 0 /\ IsAdminRole(uid)

\* GET list/
ListAllStaff(uid) ==
    IF ~Permitted(uid)
    THEN Denied("ListAllStaff", uid)
    ELSE Result([Response("ListAllStaff", 200, "")
                 EXCEPT !.staff = {StaffSerializer(i, staff[i]) : i \in DOMAIN staff}],
                staff, staffSeq, tokens, {})

\* POST admin/create-user/
AdminCreateUser(uid, d, code, mail_ok) ==
    IF ~Permitted(uid)
    THEN Denied("AdminCreateUser", uid)
    ELSE IF ~StaffRegisterSerializer_is_valid(staff, d)
    THEN Refused("AdminCreateUser", 400, "validation")
    ELSE LET id == staffSeq + 1
             row == SaveRow(IssueOTP(StaffRegisterSerializer_create(d), code, now))
         IN  Result([Response("AdminCreateUser", 201, "")
                     EXCEPT !.staff = {StaffSerializer(id, row)}],
                    Put(staff, id, row), id, tokens,
                    {Mail(row.email, "onboarding", code, mail_ok)})

\* PUT admin/update-user/
AdminUpdateUser(uid, target, d, code, mail_ok) ==
    IF ~Permitted(uid)
    THEN Denied("AdminUpdateUser", uid)
    ELSE IF target \notin DOMAIN staff
    THEN Refused("AdminUpdateUser", 404, "User not found.")
    ELSE LET s == staff[target]
             row == [s EXCEPT !.first_name = Get(d.first_name, s.first_name),
                              !.last_name = Get(d.last_name, s.last_name),
                              !.email = Get(d.email, s.email),
                              !.branch = Get(d.branch, s.branch),
                              !.role = Get(d.role, s.role)]
         IN  IF SaveRaises(row)
             THEN Refused("AdminUpdateUser", 400, "ValueError")
             ELSE IF EmailTaken(target, row.email)
             THEN Refused("AdminUpdateUser", 400, "IntegrityError")
             ELSE Result(IF mail_ok
                         THEN Response("AdminUpdateUser", 200,
                                       "User details updated successfully.")
                         ELSE Response("AdminUpdateUser", 400, "send_mail raised"),
                         [staff EXCEPT ![target] = SaveRow(IssueOTP(SaveRow(row), code, now))],
                         staffSeq, tokens,
                         {Mail(row.email, "onboarding", code, mail_ok)})

\* GET admin/get-user-credentials/<uuid>/ : the path converter hands the view a
\* UUID, and UUID(user_id) of a UUID raises AttributeError, which the view's
\* except ValueError does not catch.
AdminGetUser(uid, target) ==
    IF ~Permitted(uid)
    THEN Denied("AdminGetUser", uid)
    ELSE Refused("AdminGetUser", 500, "AttributeError")

\* DELETE admin/delete-user/<uuid>/
AdminDeleteUser(uid, target) ==
    IF ~Permitted(uid)
    THEN Denied("AdminDeleteUser", uid)
    ELSE IF target \notin DOMAIN staff
    THEN Refused("AdminDeleteUser", 404, "User not found.")
    ELSE Result(Response("AdminDeleteUser", 200, "User deleted successfully."),
                Drop(staff, target), staffSeq, tokens, {})

\* A delete that leaves the issues of the deleted row in place.
Cascade_None(table, rows) == rows

\* ITIssue.submitted_by is on_delete=CASCADE: the issues left once the Staff
\* table is table.
Cascade(table, rows) ==
    [i \in {j \in DOMAIN rows : rows[j].submitted_by \in DOMAIN table} |-> rows[i]]

StaffListView_get(cred) == Reply(ListAllStaff(Authenticate(cred)))

AdminCreateUserView_post(cred, d, code, mail_ok) ==
    LET o == AdminCreateUser(Authenticate(cred), d, code, mail_ok)
    IN  o.staffSeq <= MaxStaff /\ Reply(o)

AdminUpdateUserCredentialsView_put(cred, target, d, code, mail_ok) ==
    Reply(AdminUpdateUser(Authenticate(cred), target, d, code, mail_ok))

AdminGetUserCredentialsView_get(cred, target) ==
    Reply(AdminGetUser(Authenticate(cred), target))

\* ITIssue.submitted_by is on_delete=CASCADE: the issues of a deleted staff
\* member go with the row.
AdminDeleteUserView_delete(cred, target) ==
    LET o == AdminDeleteUser(Authenticate(cred), target)
    IN  /\ resp' = o.resp
        /\ staff' = o.staff
        /\ issues' = Cascade(o.staff, issues)
        /\ mails' = o.mails
        /\ events' = {}
        /\ UNCHANGED <<staffSeq, tokens, blacklist, inflight, now, issueSeq>>

\* The dictionary GetUserCredentialsView returns
Credentials(id, s) ==
    [id |-> id, first_name |-> s.first_name, last_name |-> s.last_name,
     email |-> s.email, branch |-> s.branch, role |-> s.role]

\* GET get-user-credentials/<user_id>/ by uid, for the id of a Staff row: the
\* user_id of the token must be the one asked for.
GetUserCredentials(uid, target) ==
    IF uid = 0
    THEN Refused("GetUserCredentials", 401, "not authenticated")
    ELSE IF uid # target
    THEN Refused("GetUserCredentials", 403, "Permission denied.")
    ELSE Result([Response("GetUserCredentials", 200, "")
                 EXCEPT !.staff = {Credentials(uid, staff[uid])}],
                staff, staffSeq, tokens, {})

GetUserCredentialsView_get(cred, target) ==
    Reply(GetUserCredentials(Authenticate(cred), target))

\* request.data without a refresh_token, or with an empty one
NoToken == 0

\* A refresh_token that is no token this server signed
BadToken == 0 - 1

\* What LogoutView did: its response and the blacklist it left.
Revocation(r, black) == [resp |-> r, blacklist |-> black]

\* A RefreshToken constructor that does not look at the blacklist.
RefreshToken_verify_Unchecked(black, toks, refresh) ==
    IF refresh \notin 1..Len(toks)
    THEN "Token is invalid or expired"
    ELSE ""

\* RefreshToken(refresh_token): the TokenError its verify() raises, or "" for
\* none; with token_blacklist installed verify() looks the jti up in the blacklist.
RefreshToken_verify(black, toks, refresh) ==
    IF refresh \notin 1..Len(toks)
    THEN "Token is invalid or expired"
    ELSE IF refresh \in black
    THEN "Token is blacklisted"
    ELSE ""

\* POST logout/ by uid (0: no valid access token) with that refresh_token
Logout(black, toks, uid, refresh) ==
    IF uid = 0
    THEN Revocation(Response("Logout", 401, "not authenticated"), black)
    ELSE IF refresh = NoToken
    THEN Revocation(Response("Logout", 400, "Refresh token is required."), black)
    ELSE IF RefreshToken_verify(black, toks, refresh) # ""
    THEN Revocation(Response("Logout", 400, RefreshToken_verify(black, toks, refresh)),
                    black)
    ELSE Revocation(Response("Logout", 200, "Logout successful."),
                    black \cup {refresh})

LogoutView_post(cred, refresh) ==
    LET o == Logout(blacklist, tokens, Authenticate(cred), refresh)
    IN  /\ resp' = o.resp
        /\ blacklist' = o.blacklist
        /\ mails' = {}
        /\ events' = {}
        /\ UNCHANGED <<staff, staffSeq, tokens, now, issues, issueSeq, inflight>>

-----------------------------------------------------------------------------
(* ITIssue model *)

CATEGORY_CHOICES == {"internet_banking", "mobile_banking", "br_net",
                     "network_issue", "hardware_issue", "others"}
\* The display name of each category key
CATEGORY_NAMES ==
    [k \in CATEGORY_CHOICES |->
        CASE k = "internet_banking" -> "Internet Banking"
          [] k = "mobile_banking" -> "Mobile Banking"
          [] k = "br_net" -> "BR. NET"
          [] k = "network_issue" -> "Network Issue"
          [] k = "hardware_issue" -> "Hardware Issue"
          [] k = "others" -> "Others"]

PRIORITY_CHOICES == {"Critical", "High", "Normal", "Low"}
STATUS_CHOICES == {"new", "in-progress", "duplicate", "follow-up", "completed",
                   "unresolved"}
METHOD_CHOICES == {"email", "call"}

\* ITIssue.save: stamp resolution_date when the status is completed and none is set.
ITIssue_save(row, t) ==
    IF row.status = "completed" /\ row.resolution_date = NoTime
    THEN [row EXCEPT !.resolution_date = t]
    ELSE row

\* ITIssueSerializer(instance).data
ITIssueSerializer(id, row) ==
    [id |-> id, category |-> row.category, issue_title |-> row.issue_title,
     issue_description |-> row.issue_description, priority |-> row.priority,
     status |-> row.status, date_logged |-> row.date_logged,
     associated_file |-> row.associated_file,
     resolution_date |-> row.resolution_date, work_done |-> row.work_done,
     recommendation |-> row.recommendation,
     method_of_logging |-> row.method_of_logging,
     submitted_by |-> row.submitted_by]

\* ITIssueSerializer.is_valid() on create: the writable fields only; category has a
\* model default and associated_file is blank=True, so neither is required.
ITIssueSerializer_is_valid(d) ==
    /\ d.category \in CATEGORY_CHOICES \cup {Absent}
    /\ d.issue_title # Absent
    /\ d.issue_description # Absent
    /\ d.priority \in PRIORITY_CHOICES
    /\ d.method_of_logging \in METHOD_CHOICES

\* A serializer in which status is writable.
CreatedStatus_FromPayload(d) == Get(d.status, "new")

\* status is read-only in ITIssueSerializer: the column default applies.
CreatedStatus(d) == "new"

\* A creation that stores the resolution_date of the payload.
ITIssueSerializer_create_KeepsDate(d, owner, t) ==
    ITIssue_save([category |-> Get(d.category, "others"),
                  issue_title |-> d.issue_title,
                  issue_description |-> d.issue_description,
                  priority |-> d.priority,
                  status |-> CreatedStatus(d),
                  date_logged |-> t,
                  associated_file |-> Get(d.associated_file, None),
                  resolution_date |-> d.resolution_date,
                  work_done |-> None,
                  recommendation |-> None,
                  method_of_logging |-> d.method_of_logging,
                  submitted_by |-> owner], t)

\* ITIssueSerializer.create via serializer.save(submitted_by=staff): read-only
\* fields of the payload never reach validated_data; the model defaults fill in.
ITIssueSerializer_create(d, owner, t) ==
    ITIssue_save([category |-> Get(d.category, "others"),
                  issue_title |-> d.issue_title,
                  issue_description |-> d.issue_description,
                  priority |-> d.priority,
                  status |-> CreatedStatus(d),
                  date_logged |-> t,
                  associated_file |-> Get(d.associated_file, None),
                  resolution_date |-> NoTime,
                  work_done |-> None,
                  recommendation |-> None,
                  method_of_logging |-> d.method_of_logging,
                  submitted_by |-> owner], t)

\* ITIssueUpdateStatusSerializer.is_valid(): status is a choice, none is required.
ITIssueUpdateStatusSerializer_is_valid(d) ==
    d.status \in STATUS_CHOICES \cup {Absent}

\* An update that stamps resolution_date at every completion.
ITIssueUpdateStatusSerializer_update_Restamp(row, d, t) ==
    LET assigned == [row EXCEPT !.status = Get(d.status, row.status),
                                !.work_done = Get(d.work_done, row.work_done),
                                !.recommendation = Get(d.recommendation, row.recommendation)]
    IN  IF assigned.status = "completed"
        THEN [assigned EXCEPT !.resolution_date = t]
        ELSE assigned

\* ITIssueUpdateStatusSerializer.update, including its instance.save()
ITIssueUpdateStatusSerializer_update(row, d, t) ==
    LET assigned == [row EXCEPT !.status = Get(d.status, row.status),
                                !.work_done = Get(d.work_done, row.work_done),
                                !.recommendation = Get(d.recommendation, row.recommendation)]
        stamped == IF assigned.status = "completed" /\ assigned.resolution_date = NoTime
                   THEN [assigned EXCEPT !.resolution_date = t]
                   ELSE assigned
    IN  ITIssue_save(stamped, t)

\* A patch that also assigns the status of request.data.
StaffUpdateIssue_assign_Status(row, d, t) ==
    ITIssue_save([row EXCEPT !.category = Get(d.category, row.category),
                             !.issue_title = Get(d.issue_title, row.issue_title),
                             !.issue_description = Get(d.issue_description, row.issue_description),
                             !.priority = Get(d.priority, row.priority),
                             !.associated_file = Get(d.associated_file, row.associated_file),
                             !.method_of_logging = Get(d.method_of_logging, row.method_of_logging),
                             !.status = Get(d.status, row.status)],
                 t)

\* A patch that also assigns the submitted_by of request.data.
StaffUpdateIssue_assign_Owner(row, d, t) ==
    ITIssue_save([row EXCEPT !.category = Get(d.category, row.category),
                             !.issue_title = Get(d.issue_title, row.issue_title),
                             !.issue_description = Get(d.issue_description, row.issue_description),
                             !.priority = Get(d.priority, row.priority),
                             !.associated_file = Get(d.associated_file, row.associated_file),
                             !.method_of_logging = Get(d.method_of_logging, row.method_of_logging),
                             !.submitted_by = IF "submitted_by" \in DOMAIN d
                                              THEN d.submitted_by
                                              ELSE row.submitted_by],
                 t)

\* StaffUpdateIssueView.put: setattr for each listed field present in request.data,
\* then issue.save()
StaffUpdateIssue_assign(row, d, t) ==
    ITIssue_save([row EXCEPT !.category = Get(d.category, row.category),
                             !.issue_title = Get(d.issue_title, row.issue_title),
                             !.issue_description = Get(d.issue_description, row.issue_description),
                             !.priority = Get(d.priority, row.priority),
                             !.associated_file = Get(d.associated_file, row.associated_file),
                             !.method_of_logging = Get(d.method_of_logging, row.method_of_logging)],
                 t)

\* A queryset without the owner filter.
OwnIssues_All(table, uid) == DOMAIN table

\* get_queryset: ITIssue.objects.filter(submitted_by=staff), over a table
OwnIssues(table, uid) == {i \in DOMAIN table : table[i].submitted_by = uid}

\* What a handler did: its response, the table it left, what it sent and published.
Outcome(r, table, sent, published) ==
    [resp |-> r, issues |-> table, mails |-> sent, events |-> published]

\* get_object_or_404 on the filtered queryset failing
NotFound(op, table) == Outcome(Response(op, 404, "Not found."), table, {}, {})

\* POST issues/ : ITIssueSerializer with perform_create's save(submitted_by=staff);
\* id is the key the insert receives.
CreateIssue(table, id, uid, d, t) ==
    IF ~ITIssueSerializer_is_valid(d)
    THEN Outcome(Response("CreateIssue", 400, "validation"), table, {}, {})
    ELSE LET row == ITIssueSerializer_create(d, uid, t)
         IN  Outcome([Response("CreateIssue", 201, "")
                      EXCEPT !.issues = {ITIssueSerializer(id, row)}],
                     Put(table, id, row), {}, {})

\* A list view that returns every stored issue.
ListIssues_Unfiltered(table, uid) ==
    Outcome([Response("ListIssues", 200, "")
             EXCEPT !.issues = {ITIssueSerializer(i, table[i]) : i \in DOMAIN table}],
            table, {}, {})

\* GET issues/
ListIssues(table, uid) ==
    Outcome([Response("ListIssues", 200, "")
             EXCEPT !.issues = {ITIssueSerializer(i, table[i]) : i \in OwnIssues(table, uid)}],
            table, {}, {})

\* GET issues/<pk>/
RetrieveIssue(table, uid, pk) ==
    IF pk \notin OwnIssues(table, uid)
    THEN NotFound("RetrieveIssue", table)
    ELSE Outcome([Response("RetrieveIssue", 200, "")
                  EXCEPT !.issues = {ITIssueSerializer(pk, table[pk])}],
                 table, {}, {})

\* A request whose writes are undone when it ends in an error.
Committed_Atomic(before, saved, status) == IF status >= 500 THEN before ELSE saved

\* DATABASES has no ATOMIC_REQUESTS and no view opens a transaction: every save()
\* commits as it runs, whatever the request ends with.
Committed(before, saved, status) == saved

\* The mails perform_update sends once the saved status is completed: one
\* send_mail to the submitting staff member, then one to IT_SUPPORT_EMAIL, each
\* fail_silently=True; mail_ok and support_ok are what the transport did with
\* the first and with the second.
ResolutionMails(row, owner, mail_ok, support_ok) ==
    IF row.status = "completed"
    THEN {Mail(owner.email, "issue_resolved", None, mail_ok),
          Mail(IT_SUPPORT_EMAIL, "issue_resolved", None, support_ok)}
    ELSE {}

\* An event published whatever the saved status is.
ResolutionEvents_Always(row) ==
    {[event |-> "issue_resolved", title |-> row.issue_title,
      resolution_date |-> row.resolution_date]}

ResolutionEvents(row) ==
    IF row.status = "completed"
    THEN {[event |-> "issue_resolved", title |-> row.issue_title,
           resolution_date |-> row.resolution_date]}
    ELSE {}

\* PUT/PATCH issues/<pk>/ ; send_mail is fail_silently=True, group_send is not guarded
UpdateIssueStatus(table, uid, pk, d, t, mail_ok, support_ok, publish_ok) ==
    IF pk \notin OwnIssues(table, uid)
    THEN NotFound("UpdateIssueStatus", table)
    ELSE IF ~ITIssueUpdateStatusSerializer_is_valid(d)
    THEN Outcome(Response("UpdateIssueStatus", 400, "validation"), table, {}, {})
    ELSE LET row == ITIssueUpdateStatusSerializer_update(table[pk], d, t)
             saved == [table EXCEPT ![pk] = row]
             sent == ResolutionMails(row, staff[uid], mail_ok, support_ok)
         IN  IF row.status = "completed" /\ ~publish_ok
             THEN Outcome(Response("UpdateIssueStatus", 500, "group_send raised"),
                          Committed(table, saved, 500), sent, {})
             ELSE Outcome([Response("UpdateIssueStatus", 200, "")
                           EXCEPT !.issues = {ITIssueSerializer(pk, row)}],
                          saved, sent, ResolutionEvents(row))

\* DELETE issues/<pk>/
DeleteIssue(table, uid, pk) ==
    IF pk \notin OwnIssues(table, uid)
    THEN NotFound("DeleteIssue", table)
    ELSE Outcome(Response("DeleteIssue", 204, ""), Drop(table, pk), {}, {})

\* PUT issues/<pk>/update/
PatchIssueFields(table, uid, pk, d, t) ==
    IF pk \notin OwnIssues(table, uid)
    THEN Outcome(Response("PatchIssueFields", 404,
                          "Issue not found or you do not have permission to update it"),
                 table, {}, {})
    ELSE Outcome(Response("PatchIssueFields", 200, "Issue updated successfully"),
                 [table EXCEPT ![pk] = StaffUpdateIssue_assign(table[pk], d, t)], {}, {})

\* GET categories/ : CategoryChoicesView names no permission_classes, so the
\* DEFAULT_PERMISSION_CLASSES of settings.REST_FRAMEWORK (IsAuthenticated) apply;
\* uid is 0 for a request without a valid token.
ListCategoryChoices(table, uid) ==
    IF uid = 0
    THEN Outcome(Response("ListCategoryChoices", 401, "not authenticated"), table, {}, {})
    ELSE Outcome([Response("ListCategoryChoices", 200, "")
                  EXCEPT !.choices = {[id |-> k, name |-> CATEGORY_NAMES[k]] :
                                         k \in CATEGORY_CHOICES}],
                 table, {}, {})

\* The handler returned o.
Served(o) ==
    /\ resp' = o.resp
    /\ issues' = o.issues
    /\ mails' = o.mails
    /\ events' = o.events
    /\ UNCHANGED <<staff, staffSeq, tokens, blacklist, inflight, now>>

\* permissions.IsAuthenticated refusing the request
Unauthenticated(op) ==
    Outcome(Response(op, 401, "not authenticated"), issues, {}, {})

\* A view open to every request.
IsAuthenticated_AllowAny(op, uid, o) == o

\* permission_classes = [IsAuthenticated] in front of a handler whose outcome
\* for the request of uid is o (uid is 0 without a valid token)
IsAuthenticated(op, uid, o) == IF uid = 0 THEN Unauthenticated(op) ELSE o

\* GET issues/
ListIssuesRequest(uid) ==
    IsAuthenticated("ListIssues", uid, ListIssues(issues, uid))

\* POST issues/
CreateIssueRequest(uid, d) ==
    IsAuthenticated("CreateIssue", uid, CreateIssue(issues, issueSeq + 1, uid, d, now))

\* GET issues/<pk>/
RetrieveIssueRequest(uid, pk) ==
    IsAuthenticated("RetrieveIssue", uid, RetrieveIssue(issues, uid, pk))

\* PUT issues/<pk>/
UpdateIssueStatusRequest(uid, pk, d, mail_ok, support_ok, publish_ok) ==
    IsAuthenticated("UpdateIssueStatus", uid,
                    UpdateIssueStatus(issues, uid, pk, d, now, mail_ok, support_ok, publish_ok))

\* DELETE issues/<pk>/
DeleteIssueRequest(uid, pk) ==
    IsAuthenticated("DeleteIssue", uid, DeleteIssue(issues, uid, pk))

\* PUT issues/<pk>/update/
PatchIssueFieldsRequest(uid, pk, d) ==
    IsAuthenticated("PatchIssueFields", uid, PatchIssueFields(issues, uid, pk, d, now))

ITIssueListCreateView_get(cred) ==
    Served(ListIssuesRequest(Authenticate(cred))) /\ UNCHANGED issueSeq

\* POST issues/ ; perform_create returns before its notification code
ITIssueListCreateView_post(cred, d) ==
    LET o == CreateIssueRequest(Authenticate(cred), d)
    IN  IF o.resp.status = 201
        THEN issueSeq < MaxIssues /\ issueSeq' = issueSeq + 1 /\ Served(o)
        ELSE Served(o) /\ UNCHANGED issueSeq

ITIssueRetrieveUpdateDestroyView_get(cred, pk) ==
    Served(RetrieveIssueRequest(Authenticate(cred), pk)) /\ UNCHANGED issueSeq

ITIssueRetrieveUpdateDestroyView_put(cred, pk, d, mail_ok, support_ok, publish_ok) ==
    /\ Served(UpdateIssueStatusRequest(Authenticate(cred), pk, d, mail_ok, support_ok, publish_ok))
    /\ UNCHANGED issueSeq

ITIssueRetrieveUpdateDestroyView_delete(cred, pk) ==
    Served(DeleteIssueRequest(Authenticate(cred), pk)) /\ UNCHANGED issueSeq

CategoryChoicesView_get(cred) ==
    Served(ListCategoryChoices(issues, Authenticate(cred))) /\ UNCHANGED issueSeq

StaffUpdateIssueView_put(cred, pk, d) ==
    Served(PatchIssueFieldsRequest(Authenticate(cred), pk, d)) /\ UNCHANGED issueSeq

-----------------------------------------------------------------------------
(* Requests served at the same time.  A handler that writes runs in two steps,
   the objects.get() that reads the row into a model instance and the save()
   that writes the instance back; no view opens a transaction or uses
   select_for_update, so the steps of several requests interleave freely. *)

\* The table as a request sees it that read inst under the key id.
Seen(table, id, inst) == Put(table, id, inst)

\* A worker that holds a request of one of the handlers ops.
Holding(r, ops) == inflight[r].op \in ops

\* Worker r takes a request and reads the row; the rest is unchanged.
Read(r, op, uid, id, inst, d) ==
    /\ inflight' = [inflight EXCEPT ![r] = [op |-> op, uid |-> uid, id |-> id,
                                            instance |-> inst, data |-> d]]
    /\ UNCHANGED <<staff, staffSeq, tokens, blacklist, now, issues, issueSeq,
                   resp, mails, events>>

\* self.get_object() of the status update, ITIssue.objects.get(id=pk,
\* submitted_by=staff) of the patch: a request the handler refuses (401, 404,
\* 400) is answered at once, any other leaves worker r with the instance.
IssueRequest_get(r, op, cred, pk, d) ==
    LET uid == Authenticate(cred)
        o == IF op = "UpdateIssueStatus"
             THEN UpdateIssueStatusRequest(uid, pk, d, TRUE, TRUE, TRUE)
             ELSE PatchIssueFieldsRequest(uid, pk, d)
    IN  /\ Holding(r, {"idle"})
        /\ IF o.resp.status # 200
           THEN Served(o) /\ UNCHANGED issueSeq
           ELSE Read(r, op, uid, pk, issues[pk], d)

\* instance.save() of ITIssueUpdateStatusSerializer.update and issue.save() of
\* StaffUpdateIssueView.put, with what follows them in the handler: save()
\* names no update_fields, so every column of the row is written from the
\* instance the request read.
IssueRequest_save(r, mail_ok, support_ok, publish_ok) ==
    LET q == inflight[r]
    IN  /\ Holding(r, {"UpdateIssueStatus", "PatchIssueFields"})
        /\ LET seen == Seen(issues, q.id, q.instance)
               o == IF q.op = "UpdateIssueStatus"
                    THEN UpdateIssueStatus(seen, q.uid, q.id, q.data, now,
                                           mail_ok, support_ok, publish_ok)
                    ELSE PatchIssueFields(seen, q.uid, q.id, q.data, now)
           IN  /\ issues' = Put(issues, q.id, o.issues[q.id])
               /\ resp' = o.resp
               /\ mails' = o.mails
               /\ events' = o.events
        /\ inflight' = [inflight EXCEPT ![r] = Idle]
        /\ UNCHANGED <<staff, staffSeq, tokens, blacklist, now, issueSeq>>

\* Staff.objects.get(email=email) of OTPVerifyView.post and
\* OTPLoginVerifyView.post: a request with invalid fields or an unknown address
\* is answered at once, any other leaves worker r with the instance.
VerifyRequest_get(r, op, email, otp) ==
    LET check == OTPCheck(staff, email, otp, now)
        o == IF op = "VerifyOTP"
             THEN VerifyOTP(staff, staffSeq, tokens, email, otp, now)
             ELSE LoginVerifyOTP(staff, staffSeq, tokens, email, otp, now)
    IN  /\ Holding(r, {"idle"})
        /\ IF check.detail \in {"validation", "Staff not found."}
           THEN Reply(o)
           ELSE Read(r, op, 0, HolderIn(staff, email), staff[HolderIn(staff, email)], otp)

\* The rest of the two handlers: the comparison of the code and of its age on
\* the instance read, then otp = None (and is_verified = True) and staff.save(),
\* which writes every column of the row from the instance; the login issues
\* its token pair.
VerifyRequest_save(r, maxTokens) ==
    LET q == inflight[r]
    IN  /\ Holding(r, {"VerifyOTP", "LoginVerify"})
        /\ LET seen == Seen(staff, q.id, q.instance)
               o == IF q.op = "VerifyOTP"
                    THEN VerifyOTP(seen, staffSeq, tokens, q.instance.email, q.data, now)
                    ELSE LoginVerifyOTP(seen, staffSeq, tokens, q.instance.email, q.data, now)
           IN  /\ Len(o.tokens) <= maxTokens
               /\ staff' = IF o.resp.status = 200
                           THEN Put(staff, q.id, o.staff[q.id])
                           ELSE staff
               /\ tokens' = o.tokens
               /\ resp' = o.resp
               /\ mails' = o.mails
               /\ events' = {}
        /\ inflight' = [inflight EXCEPT ![r] = Idle]
        /\ UNCHANGED <<staffSeq, blacklist, now, issues, issueSeq>>

\* The OTP authenticator and the self-service endpoints.
OTPNext(registerData, updateData, mailOutcomes) ==
    \/ \E d \in registerData, code \in OTPCodes, ok \in mailOutcomes :
          StaffRegisterView_post(d, code, ok)
    \/ \E e \in VerifyEmails, o \in SubmittedCodes : OTPVerifyView_post(e, o)
    \/ \E e \in RequestEmails, code \in OTPCodes, ok \in mailOutcomes :
          OTPLoginRequestView_post(e, code, ok)
    \/ \E e \in VerifyEmails, o \in SubmittedCodes : OTPLoginVerifyView_post(e, o)
    \/ \E e \in RequestEmails, code \in OTPCodes, ok \in mailOutcomes :
          ResendOTPView_post(e, code, ok)
    \/ \E c \in Creds, d \in updateData, code \in OTPCodes, ok \in mailOutcomes :
          UpdateUserCredentialsView_put(c, d, code, ok)

\* The endpoints behind IsAdminRole.
AdminNext(registerData, updateData, mailOutcomes) ==
    \/ \E c \in Creds, d \in registerData, code \in OTPCodes, ok \in mailOutcomes :
          AdminCreateUserView_post(c, d, code, ok)
    \/ \E c \in Creds, t \in 1..MaxStaff, d \in updateData, code \in OTPCodes,
          ok \in mailOutcomes :
          AdminUpdateUserCredentialsView_put(c, t, d, code, ok)
    \/ \E c \in Creds, t \in 1..MaxStaff : AdminDeleteUserView_delete(c, t)
    \/ \E c \in Creds : StaffListView_get(c)
    \/ \E c \in Creds, t \in 1..MaxStaff : AdminGetUserCredentialsView_get(c, t)

\* The OTP authenticator under a running clock.
Next ==
    \/ Tick
    \/ OTPNext(RegisterData, EmailUpdateData, {TRUE})

Spec == Init /\ [][Next]_vars

\* The identity store with its administrative endpoints, the clock standing still.
AdminSpecNext ==
    \/ OTPNext(RegisterData, UpdateData, {TRUE})
    \/ AdminNext(RegisterData, UpdateData, {TRUE})
    \/ \E c \in Creds, t \in 1..MaxStaff : GetUserCredentialsView_get(c, t)

SpecAdmin == Init /\ [][AdminSpecNext]_vars

\* The registrations of an Admin and of a User.
CascadeStaffData ==
    {d \in [first_name : {"Ann"}, last_name : {"Lee"}, email : StaffEmails,
            branch : {Absent}, role : {Absent, "Admin"}] :
        d.role = "Admin" <=> d.email = IssueStaffEmail}

\* The issue store with the delete of staff members: an Admin and a User
\* register, log in, create issues, and the Admin deletes either of them.
CascadeSpecNext ==
    \/ \E d \in CascadeStaffData : StaffRegisterView_post(d, IssueCode, TRUE)
    \/ \E e \in StaffEmails : LoginVerify(e, IssueCode, MaxStaff)
    \/ \E c \in Creds, d \in CreateData : ITIssueListCreateView_post(c, d)
    \/ \E c \in Creds : ITIssueListCreateView_get(c)
    \/ \E c \in Creds, t \in 1..MaxStaff : AdminDeleteUserView_delete(c, t)

SpecCascade == Init /\ [][CascadeSpecNext]_vars

\* The refresh_token values a logout is sent.
RefreshTokens == {NoToken, BadToken} \cup 1..MaxStaff

\* Sessions: two staff members register, log in (again after a resend) and log out.
SessionSpecNext ==
    \/ \E d \in IssueStaffData : StaffRegisterView_post(d, IssueCode, TRUE)
    \/ \E e \in StaffEmails : ResendOTPView_post(e, IssueCode, TRUE)
    \/ \E e \in StaffEmails : LoginVerify(e, IssueCode, MaxStaff)
    \/ \E c \in Creds, r \in RefreshTokens : LogoutView_post(c, r)

SpecSession == Init /\ [][SessionSpecNext]_vars

\* The issue endpoints.
IssueNext(createData, statusData, patchData, mailOutcomes, publishOutcomes) ==
    \/ \E c \in Creds : ITIssueListCreateView_get(c)
    \/ \E c \in Creds, d \in createData : ITIssueListCreateView_post(c, d)
    \/ \E c \in Creds, pk \in 1..MaxIssues : ITIssueRetrieveUpdateDestroyView_get(c, pk)
    \/ \E c \in Creds, pk \in 1..MaxIssues, d \in statusData,
          m, s \in mailOutcomes, b \in publishOutcomes :
          ITIssueRetrieveUpdateDestroyView_put(c, pk, d, m, s, b)
    \/ \E c \in Creds, pk \in 1..MaxIssues : ITIssueRetrieveUpdateDestroyView_delete(c, pk)
    \/ \E c \in Creds, pk \in 1..MaxIssues, d \in patchData : StaffUpdateIssueView_put(c, pk, d)
    \/ \E c \in Creds : CategoryChoicesView_get(c)

\* The issue store, used by two staff members who registered and logged in.
IssueSpecNext ==
    \/ \E d \in IssueStaffData : StaffRegisterView_post(d, IssueCode, TRUE)
    \/ \E e \in StaffEmails : LoginVerify(e, IssueCode, MaxStaff)
    \/ IssueNext(CreateData, StatusData, PatchData, {TRUE}, {TRUE})
    \/ \E c \in Creds : StaffListView_get(c)

SpecIssues == Init /\ [][IssueSpecNext]_vars

\* The issue store over time, used by one staff member.
ResolutionSpecNext ==
    \/ Elapse({OTP_EXPIRY_SECONDS})
    \/ \E d \in IssueStaffData :
          d.email = IssueStaffEmail /\ StaffRegisterView_post(d, IssueCode, TRUE)
    \/ OTPLoginVerifyView_post(IssueStaffEmail, IssueCode)
    \/ IssueNext(CreateData, StatusData, OpenPatchData, BOOLEAN, BOOLEAN)

SpecResolution == Init /\ [][ResolutionSpecNext]_vars

\* The status updates that overlap: to completed, to in-progress, of no status.
RaceStatusData == {d \in StatusData : d.status \in STATUS_CHOICES \cup {Absent}}

\* The patch that overlaps with them: of the priority.
RacePatchData == {d \in PatchData : d.priority # Absent}

\* One issue of one staff member over time, its status updates and patches
\* served by MaxRequests workers at once.
IssueRaceSpecNext ==
    \/ Elapse({OTP_EXPIRY_SECONDS})
    \/ \E d \in IssueStaffData :
          d.email = IssueStaffEmail /\ StaffRegisterView_post(d, IssueCode, TRUE)
    \/ OTPLoginVerifyView_post(IssueStaffEmail, IssueCode)
    \/ \E c \in Creds, d \in CreateData :
          issueSeq = 0 /\ d.status = Absent /\ ITIssueListCreateView_post(c, d)
    \/ \E r \in Requests, c \in Creds, d \in RaceStatusData :
          IssueRequest_get(r, "UpdateIssueStatus", c, 1, d)
    \/ \E r \in Requests, c \in Creds, d \in RacePatchData :
          IssueRequest_get(r, "PatchIssueFields", c, 1, d)
    \/ \E r \in Requests : IssueRequest_save(r, TRUE, TRUE, TRUE)

SpecIssueRace == Init /\ [][IssueRaceSpecNext]_vars

\* One staff member whose verifications and logins are served by MaxRequests
\* workers at once; a resend issues a further code.
VerifyRaceSpecNext ==
    \/ \E d \in IssueStaffData :
          d.email = IssueStaffEmail /\ StaffRegisterView_post(d, IssueCode, TRUE)
    \/ \E code \in OTPCodes : ResendOTPView_post(IssueStaffEmail, code, TRUE)
    \/ \E r \in Requests, e \in VerifyEmails, o \in OTPCodes :
          VerifyRequest_get(r, "VerifyOTP", e, o)
    \/ \E r \in Requests, e \in VerifyEmails, o \in OTPCodes :
          VerifyRequest_get(r, "LoginVerify", e, o)
    \/ \E r \in Requests : VerifyRequest_save(r, MaxRequests)

SpecVerifyRace == Init /\ [][VerifyRaceSpecNext]_vars

-----------------------------------------------------------------------------
(* Properties of the OTP authenticator *)

\* The moments a request can arrive at, from now on.
Later == {now} \cup {now + d : d \in TickSteps}

\* The verification was refused as a wrong code and wrote nothing.
RefusedInvalid(o, table, toks) ==
    /\ o.resp.status = 400
    /\ o.resp.detail = "Invalid OTP."
    /\ o.staff = table
    /\ o.tokens = toks

\* The verification succeeded and cleared the code; presenting the same code
\* again, at once or later, is refused.
UsedOnce(o, email, code) ==
    /\ o.resp.status = 200
    /\ o.staff[HolderIn(staff, email)].otp = None
    /\ \A t \in Later :
          /\ RefusedInvalid(VerifyOTP(o.staff, o.staffSeq, o.tokens, email, code, t),
                            o.staff, o.tokens)
          /\ RefusedInvalid(LoginVerifyOTP(o.staff, o.staffSeq, o.tokens, email, code, t),
                            o.staff, o.tokens)

\* C1: an OTP is single use. A verification (registration or login) that presents
\* the stored code within 300 seconds succeeds and leaves otp null, and the same
\* code presented again without a new OTP having been stored is refused with
\* 400 "Invalid OTP."; so is every code presented while the stored otp is null.
C1_SingleUse ==
    \A e \in StaffEmails, c \in OTPCodes :
        HoldersIn(staff, e) # {} =>
            LET s == staff[HolderIn(staff, e)]
                first == VerifyOTP(staff, staffSeq, tokens, e, c, now)
                login == LoginVerifyOTP(staff, staffSeq, tokens, e, c, now)
            IN  /\ s.otp = c /\ now - s.otp_created_at <= 300
                      => UsedOnce(first, e, c) /\ UsedOnce(login, e, c)
                /\ s.otp = None
                      => RefusedInvalid(first, staff, tokens) /\ RefusedInvalid(login, staff, tokens)

\* A code was used for login and then presented again: every row's code is
\* consumed, a token exists, and the last login verification was refused.
C1_Witness ==
    /\ Len(tokens) = 1
    /\ \A i \in DOMAIN staff : staff[i].otp = None
    /\ resp.op = "LoginVerify"
    /\ resp.status = 400
    /\ resp.detail = "Invalid OTP."

\* Ages of a code around the expiry boundary.
BoundaryAges == {0, 299, 300, 301, 302}

\* The verification was refused as expired and wrote nothing.
RefusedExpired(o) ==
    /\ o.resp.status = 400
    /\ o.resp.detail = "OTP expired."
    /\ o.staff = staff
    /\ o.tokens = tokens

\* C2: with a matching code, a verification more than 300 seconds after
\* otp_created_at returns 400 "OTP expired." and leaves otp, otp_created_at and
\* is_verified as they were; at 300 seconds or less (exactly 300 included) it succeeds.
C2_ExpiryBoundary ==
    \A e \in StaffEmails, c \in OTPCodes :
        HoldersIn(staff, e) # {} /\ staff[HolderIn(staff, e)].otp = c =>
            LET id == HolderIn(staff, e)
                created == staff[id].otp_created_at
            IN  \A t \in {now} \cup {created + a : a \in BoundaryAges} :
                    LET first == VerifyOTP(staff, staffSeq, tokens, e, c, t)
                        login == LoginVerifyOTP(staff, staffSeq, tokens, e, c, t)
                    IN  /\ t - created > 300 => RefusedExpired(first) /\ RefusedExpired(login)
                        /\ t - created <= 300 => /\ first.resp.status = 200
                                                 /\ first.staff[id].is_verified
                                                 /\ first.staff[id].otp = None
                                                 /\ login.resp.status = 200
                                                 /\ login.staff[id].otp = None

\* A registration verified exactly 300 seconds after its OTP was stored: the
\* other row was created at 300 and is still unverified, so the successful
\* verification that answered last was the one of the row created at 0.
C2_Witness ==
    /\ now = 300
    /\ resp.op = "VerifyOTP"
    /\ resp.status = 200
    /\ \E a, b \in DOMAIN staff :
          /\ staff[a].otp_created_at = 0
          /\ staff[a].is_verified
          /\ staff[a].otp = None
          /\ staff[b].otp_created_at = 300
          /\ ~staff[b].is_verified

\* C4: RequestLoginOTP answers 404 for an unknown email and 403 for an
\* unverified Staff, changing no state and sending no mail; a verified Staff gets
\* the fresh code stored with otp_created_at = now and mailed to its address.
C4_LoginRequestGate ==
    \A e \in StaffEmails \cup {ForeignEmail}, c \in OTPCodes, m \in BOOLEAN :
        LET o == LoginRequest(staff, staffSeq, tokens, e, c, m, now)
        IN  IF \A i \in DOMAIN staff : staff[i].email # e
            THEN /\ o.resp.status = 404
                 /\ o.staff = staff
                 /\ o.mails = {}
            ELSE LET id == HolderIn(staff, e)
                 IN  IF ~staff[id].is_verified
                     THEN /\ o.resp.status = 403
                          /\ o.staff = staff
                          /\ o.mails = {}
                     ELSE /\ o.staff[id].otp = c
                          /\ o.staff[id].otp_created_at = now
                          /\ \A i \in DOMAIN staff \ {id} : o.staff[i] = staff[i]
                          /\ DOMAIN o.staff = DOMAIN staff
                          /\ o.mails = {Mail(e, "otp_login", c, m)}

\* An unverified Staff was refused a login OTP, and the refusal left its
\* registration code in place.
C4_Witness ==
    /\ resp.op = "LoginRequest"
    /\ resp.status = 403
    /\ mails = {}
    /\ \A i \in DOMAIN staff : ~staff[i].is_verified /\ staff[i].otp # None

\* C5: VerifyLoginOTP returns a token pair exactly when the Staff exists, the
\* submitted code equals the stored otp and the code has not expired; the role
\* claim of the token is the stored role and otp is cleared; in every other case
\* no token is issued.
C5_TokenIffValid ==
    \A e \in VerifyEmails \cup {ForeignEmail}, c \in SubmittedCodes :
        LET o == LoginVerifyOTP(staff, staffSeq, tokens, e, c, now)
            ok == /\ \E i \in DOMAIN staff : staff[i].email = e
                  /\ staff[HolderIn(staff, e)].otp = c
                  /\ now - staff[HolderIn(staff, e)].otp_created_at <= 300
        IN  /\ ok <=> o.resp.tokens # {}
            /\ ok => /\ o.resp.status = 200
                     /\ \A t \in o.resp.tokens :
                           /\ t.claims.user_id = HolderIn(staff, e)
                           /\ t.claims.role = staff[HolderIn(staff, e)].role
                     /\ o.staff[HolderIn(staff, e)].otp = None
                     /\ Len(o.tokens) = Len(tokens) + 1
            /\ ~ok => o.tokens = tokens /\ o.resp.status # 200

\* An Admin logged in and holds a token carrying the Admin role.
C5_Witness ==
    /\ resp.op = "LoginVerify"
    /\ resp.status = 200
    /\ \E t \in resp.tokens : t.claims.role = "Admin"

\* C6: Register with an email outside @paramount.co.ke, or with an email already
\* stored, answers 400, leaves the Staff table as it was and generates and mails
\* no OTP.
C6_RegisterRejects ==
    \A d \in RegisterData, c \in OTPCodes, m \in BOOLEAN :
        /\ d.email # Absent
        /\ \/ ~EndsWith(d.email, "@paramount.co.ke")
           \/ \E i \in DOMAIN staff : staff[i].email = d.email
        => LET o == Register(staff, staffSeq, tokens, d, c, m, now)
           IN  /\ o.resp.status = 400
               /\ o.staff = staff
               /\ o.staffSeq = staffSeq
               /\ o.mails = {}

\* A registration was refused while one row was stored, and nothing was mailed.
C6_Witness ==
    /\ resp.op = "Register"
    /\ resp.status = 400
    /\ staffSeq = 1
    /\ mails = {}

-----------------------------------------------------------------------------
(* Properties of verification status *)

-----------------------------------------------------------------------------
(* Properties of the issue store *)

\* The authenticated requesters.
Requesters == {Authenticate(c) : c \in Creds} \ {0}

\* An id no issue ever had.
UnusedId == MaxIssues + 1

\* The outcome o of a request on a stored issue is the one the same request has
\* without that issue (g) and for an id never used (n): a 404 that writes nothing.
Hidden(o, g, n) ==
    /\ o.resp.status = 404
    /\ o.resp = g.resp
    /\ o.resp = n.resp
    /\ o.issues = issues
    /\ o.mails = {}
    /\ o.events = {}

\* C7: RetrieveIssue, UpdateIssueStatus, PatchIssueFields and DeleteIssue by an
\* authenticated staff member who is not the issue's submitted_by give the same
\* 404 as for an id that does not exist, and leave the issue unchanged and undeleted.
C7_NonOwnerSeesNotFound ==
    \A u \in Requesters, pk \in DOMAIN issues :
        issues[pk].submitted_by # u =>
            LET without == Drop(issues, pk)
            IN  /\ Hidden(RetrieveIssue(issues, u, pk), RetrieveIssue(without, u, pk),
                          RetrieveIssue(issues, u, UnusedId))
                /\ Hidden(DeleteIssue(issues, u, pk), DeleteIssue(without, u, pk),
                          DeleteIssue(issues, u, UnusedId))
                /\ \A d \in StatusData, m, b \in BOOLEAN :
                      Hidden(UpdateIssueStatus(issues, u, pk, d, now, m, m, b),
                             UpdateIssueStatus(without, u, pk, d, now, m, m, b),
                             UpdateIssueStatus(issues, u, UnusedId, d, now, m, m, b))
                /\ \A d \in PatchData :
                      Hidden(PatchIssueFields(issues, u, pk, d, now),
                             PatchIssueFields(without, u, pk, d, now),
                             PatchIssueFields(issues, u, UnusedId, d, now))

\* Both issues are stored, each staff member owns one, and a delete was
\* answered 404: the requester asked for the issue of the other.
C7_Witness ==
    /\ resp.op = "DeleteIssue"
    /\ resp.status = 404
    /\ DOMAIN issues = 1..MaxIssues
    /\ issues[1].submitted_by # issues[2].submitted_by

\* C8: ListIssues returns exactly the stored issues whose submitted_by is the
\* requester: every own issue, as stored, and no issue of anybody else.
C8_ListOwnOnly ==
    \A u \in Requesters :
        LET listed == ListIssues(issues, u).resp.issues
        IN  /\ {r.id : r \in listed} = {i \in DOMAIN issues : issues[i].submitted_by = u}
            /\ \A r \in listed : /\ r.submitted_by = u
                                 /\ r.status = issues[r.id].status
                                 /\ r.issue_title = issues[r.id].issue_title
                                 /\ r.resolution_date = issues[r.id].resolution_date
            /\ ListIssues(issues, u).issues = issues

\* Two staff members own one issue each and a list returned a single one.
C8_Witness ==
    /\ resp.op = "ListIssues"
    /\ resp.status = 200
    /\ Cardinality(resp.issues) = 1
    /\ DOMAIN issues = 1..MaxIssues
    /\ issues[1].submitted_by # issues[2].submitted_by

\* C9: an issue created through CreateIssue is stored with status 'new', no
\* resolution_date and submitted_by = the requester, whatever status,
\* resolution_date, work_done or submitted_by the payload carries.
C9_CreateDefaults ==
    \A u \in Requesters, d \in CreateData :
        LET id == issueSeq + 1
            o == CreateIssue(issues, id, u, d, now)
        IN  /\ d.issue_title # Absent => o.resp.status = 201
            /\ o.resp.status = 201 =>
                  /\ o.issues[id].status = "new"
                  /\ o.issues[id].resolution_date = NoTime
                  /\ o.issues[id].work_done = None
                  /\ o.issues[id].submitted_by = u
                  /\ \A i \in DOMAIN issues : o.issues[i] = issues[i]

\* The second staff member created an issue; it is stored as new and unresolved.
C9_Witness ==
    /\ resp.op = "CreateIssue"
    /\ resp.status = 201
    /\ \E r \in resp.issues :
          /\ r.submitted_by = 2
          /\ r.status = "new"
          /\ r.resolution_date = NoTime
          /\ r.id \in DOMAIN issues
          /\ issues[r.id].submitted_by = 2

\* C10: the first update that leaves an issue completed sets its resolution_date,
\* and from then on no request changes that value, a later round trip
\* completed, in-progress, completed included.
C10_ResolutionDateOnce ==
    [][\A i \in DOMAIN issues \cap DOMAIN issues' :
          /\ issues[i].resolution_date # NoTime
                => issues'[i].resolution_date = issues[i].resolution_date
          /\ issues[i].resolution_date = NoTime /\ issues'[i].status = "completed"
                => issues'[i].resolution_date = now
          /\ issues'[i].status = "completed" => issues'[i].resolution_date # NoTime
      ]_vars

\* An issue created and resolved at 0 was taken back to in-progress and completed
\* again at 300, after the other issue had been created at 300; its
\* resolution_date is still 0.
C10_Witness ==
    /\ now = 300
    /\ resp.op = "UpdateIssueStatus"
    /\ resp.status = 200
    /\ \E r \in resp.issues : r.status = "completed" /\ r.resolution_date = 0
    /\ \E i, j \in DOMAIN issues :
          /\ issues[i].status = "completed"
          /\ issues[i].resolution_date = 0
          /\ issues[j].date_logged = 300

-----------------------------------------------------------------------------
(* Properties of resolution and notification *)

\* C11: resolution_date is non-null exactly for the issues whose status has been
\* 'completed' at some point since their creation. Step by step: an issue is
\* created not completed and without resolution_date; resolution_date becomes
\* non-null only in a step that leaves the issue completed; every step that
\* leaves an issue completed leaves it with a resolution_date; and a
\* resolution_date, once set, is never nulled.
C11_ResolvedIffCompletedOnce ==
    [][\A i \in DOMAIN issues' :
          IF i \notin DOMAIN issues
          THEN /\ issues'[i].status # "completed"
               /\ issues'[i].resolution_date = NoTime
          ELSE /\ issues[i].resolution_date = NoTime /\ issues'[i].resolution_date # NoTime
                     => issues'[i].status = "completed"
               /\ issues'[i].status = "completed" => issues'[i].resolution_date # NoTime
               /\ issues[i].resolution_date # NoTime => issues'[i].resolution_date # NoTime
      ]_vars

\* One issue was completed and then taken back to in-progress: it keeps its
\* resolution_date; the other was never completed and has none.
C11_Witness ==
    \E i, j \in DOMAIN issues :
        /\ issues[i].status = "in-progress"
        /\ issues[i].resolution_date # NoTime
        /\ issues[j].status = "new"
        /\ issues[j].resolution_date = NoTime

\* C12: a successful CreateIssue sends exactly two mails, an acknowledgement to
\* the submitting staff member and an alert to the IT-support mailbox, and
\* publishes exactly one new_issue event, before the 201 is returned.
C12_CreateNotifies ==
    resp.op = "CreateIssue" /\ resp.status = 201 =>
        /\ Cardinality(mails) = 2
        /\ \E m \in mails : m.to = IT_SUPPORT_EMAIL
        /\ \E m \in mails, r \in resp.issues : m.to = staff[r.submitted_by].email
        /\ Cardinality(events) = 1
        /\ \A e \in events : e.event = "new_issue"


\* C13: an UpdateIssueStatus that leaves the issue completed sends a resolution
\* mail to the submitting staff member and, the channel layer accepting it,
\* publishes one issue_resolved event; an update that leaves any other status
\* sends no mail and publishes no event.
C13_NotifyOnlyOnCompleted ==
    \A u \in Requesters, pk \in DOMAIN issues, d \in StatusData, m, b \in BOOLEAN :
        pk \in OwnIssues(issues, u) /\ ITIssueUpdateStatusSerializer_is_valid(d) =>
            LET o == UpdateIssueStatus(issues, u, pk, d, now, m, m, b)
            IN  IF o.issues[pk].status = "completed"
                THEN /\ Mail(staff[issues[pk].submitted_by].email,
                             "issue_resolved", None, m) \in o.mails
                     /\ b => /\ Cardinality(o.events) = 1
                             /\ \A e \in o.events :
                                   /\ e.event = "issue_resolved"
                                   /\ e.title = issues[pk].issue_title
                ELSE /\ o.mails = {}
                     /\ o.events = {}

\* An update answered 200 left the issue completed: the submitting staff member
\* was mailed and one event was published.
C13_Witness ==
    /\ resp.op = "UpdateIssueStatus"
    /\ resp.status = 200
    /\ \E r \in resp.issues : r.status = "completed"
    /\ Cardinality(events) = 1
    /\ \E x \in mails : x.to = IssueStaffEmail /\ x.kind = "issue_resolved"


\* C14: a failing mail or a failing publish during CreateIssue or
\* UpdateIssueStatus does not reach the caller: a valid create is answered 201
\* and a valid update of an own issue is answered 200, whatever the mail and
\* the publish did.
C14_NotificationFailureNotPropagated ==
    \A u \in Requesters :
        /\ \A d \in CreateData :
              ITIssueSerializer_is_valid(d) =>
                  CreateIssue(issues, issueSeq + 1, u, d, now).resp.status = 201
        /\ \A pk \in DOMAIN issues, d \in StatusData, m, b \in BOOLEAN :
              pk \in OwnIssues(issues, u) /\ ITIssueUpdateStatusSerializer_is_valid(d) =>
                  UpdateIssueStatus(issues, u, pk, d, now, m, m, b).resp.status = 200

\* The status updates of the notes "Rebooted" or none.
NotedStatusData == StatusDataOf({Absent, "Rebooted"})

\* C15: whatever the mail and the publish did, the mutation made before them is
\* stored: the table a valid UpdateIssueStatus leaves is the one it leaves when
\* both succeed, with the status and work_done of the payload and, for a
\* completed issue, its resolution_date; a valid CreateIssue leaves its issue.
C15_MutationSurvivesNotificationFailure ==
    \A u \in Requesters :
        /\ \A d \in CreateData :
              ITIssueSerializer_is_valid(d) =>
                  issueSeq + 1 \in DOMAIN CreateIssue(issues, issueSeq + 1, u, d, now).issues
        /\ \A pk \in DOMAIN issues, d \in NotedStatusData, m, b \in BOOLEAN :
              pk \in OwnIssues(issues, u) /\ ITIssueUpdateStatusSerializer_is_valid(d) =>
                  LET o == UpdateIssueStatus(issues, u, pk, d, now, m, m, b)
                  IN  /\ o.issues = UpdateIssueStatus(issues, u, pk, d, now, TRUE, TRUE, TRUE).issues
                      /\ d.status # Absent => o.issues[pk].status = d.status
                      /\ d.work_done # Absent => o.issues[pk].work_done = d.work_done
                      /\ o.issues[pk].recommendation = issues[pk].recommendation
                      /\ o.issues[pk].status = "completed"
                            => o.issues[pk].resolution_date # NoTime

\* The publish of a completing update raised: the request was answered 500,
\* nothing was published, and the issue is stored completed with its
\* resolution_date.
C15_Witness ==
    /\ resp.op = "UpdateIssueStatus"
    /\ resp.status = 500
    /\ events = {}
    /\ \E i \in DOMAIN issues :
          /\ issues[i].status = "completed"
          /\ issues[i].resolution_date = now


-----------------------------------------------------------------------------
(* Properties of the administrative endpoints *)

\* The request was answered 403 and neither read nor wrote a Staff row.
Forbidden(o) ==
    /\ o.resp.status = 403
    /\ o.resp.staff = NoStaffData
    /\ o.resp.tokens = NoTokenData
    /\ o.staff = staff
    /\ o.staffSeq = staffSeq
    /\ o.tokens = tokens
    /\ o.mails = {}

\* C16: ListAllStaff, AdminCreateUser, AdminUpdateUser, AdminGetUser and
\* AdminDeleteUser requested by an authenticated staff member whose stored role
\* is not Admin are answered 403, and the request reads out, creates, modifies
\* and deletes no Staff row.
C16_AdminOnly ==
    \A u \in Requesters :
        staff[u].role # "Admin" =>
            /\ Forbidden(ListAllStaff(u))
            /\ \A d \in RegisterData, code \in OTPCodes, ok \in BOOLEAN :
                  Forbidden(AdminCreateUser(u, d, code, ok))
            /\ \A t \in 1..MaxStaff :
                  /\ Forbidden(AdminGetUser(u, t))
                  /\ Forbidden(AdminDeleteUser(u, t))
                  /\ \A d \in UpdateData, code \in OTPCodes, ok \in BOOLEAN :
                        Forbidden(AdminUpdateUser(u, t, d, code, ok))

\* Two staff members are stored and a delete was answered 403: the requester
\* is not an Admin and the row it asked to delete is still there.
C16_Witness ==
    /\ resp.op = "AdminDeleteUser"
    /\ resp.status = 403
    /\ Cardinality(DOMAIN staff) = MaxStaff
    /\ \E u \in Requesters : staff[u].role # "Admin"


-----------------------------------------------------------------------------
(* Properties of the issue endpoints' inputs and frames *)

\* C17: ListCategoryChoices is answered 200 for a request that carries no
\* session at all, with the six id/name pairs internet_banking, mobile_banking,
\* br_net, network_issue, hardware_issue and others.
C17_CategoriesPublic ==
    \A c \in Creds :
        Authenticate(c) = 0 =>
            LET o == ListCategoryChoices(issues, Authenticate(c))
            IN  /\ o.resp.status = 200
                /\ o.resp.choices =
                      {[id |-> "internet_banking", name |-> "Internet Banking"],
                       [id |-> "mobile_banking", name |-> "Mobile Banking"],
                       [id |-> "br_net", name |-> "BR. NET"],
                       [id |-> "network_issue", name |-> "Network Issue"],
                       [id |-> "hardware_issue", name |-> "Hardware Issue"],
                       [id |-> "others", name |-> "Others"]}


\* A payload with every field of the form, and no file.
CompleteIssue ==
    Merge([category |-> "network_issue", issue_title |-> "VPN down",
           issue_description |-> "No tunnel", priority |-> "High",
           method_of_logging |-> "email", associated_file |-> Absent],
          NoExtras)

RequiredFields ==
    {"category", "issue_title", "issue_description", "priority", "method_of_logging"}

\* C18: CreateIssue with any one of category, issue_title, issue_description,
\* priority and method_of_logging absent is answered 400, stores no issue and
\* sends nothing; without associated_file alone it is accepted.
C18_RequiredFields ==
    \A u \in Requesters :
        /\ CreateIssue(issues, issueSeq + 1, u, CompleteIssue, now).resp.status = 201
        /\ \A k \in RequiredFields :
              LET o == CreateIssue(issues, issueSeq + 1, u,
                                   [CompleteIssue EXCEPT ![k] = Absent], now)
              IN  /\ o.resp.status = 400
                  /\ o.issues = issues
                  /\ o.mails = {}
                  /\ o.events = {}


\* The payloads of d with a submitted_by key naming any staff id.
Transfers(payloads) ==
    {Merge([submitted_by |-> v], d) : d \in payloads, v \in 1..MaxStaff}

\* The issues of table that were stored before have the owner they had.
SameOwners(table) ==
    \A i \in DOMAIN table \cap DOMAIN issues :
        table[i].submitted_by = issues[i].submitted_by

\* C19: submitted_by is set at creation to the creating staff member, and no
\* later request, of the owner or of anybody else, changes or nulls it: not a
\* status update, a field patch, a retrieve or a delete, whatever submitted_by
\* the payload names.
C19_OwnerFixed ==
    \A u \in Requesters :
        /\ \A d \in CreateData :
              LET id == issueSeq + 1
                  o == CreateIssue(issues, id, u, d, now)
              IN  /\ o.resp.status = 201 => o.issues[id].submitted_by = u
                  /\ DOMAIN issues \subseteq DOMAIN o.issues
                  /\ SameOwners(o.issues)
        /\ \A pk \in DOMAIN issues :
              /\ \A d \in Transfers(StatusData), m, b \in BOOLEAN :
                    LET o == UpdateIssueStatus(issues, u, pk, d, now, m, m, b)
                    IN  DOMAIN o.issues = DOMAIN issues /\ SameOwners(o.issues)
              /\ \A d \in Transfers(PatchData) :
                    LET o == PatchIssueFields(issues, u, pk, d, now)
                    IN  DOMAIN o.issues = DOMAIN issues /\ SameOwners(o.issues)
              /\ SameOwners(RetrieveIssue(issues, u, pk).issues)
              /\ SameOwners(DeleteIssue(issues, u, pk).issues)

\* The second staff member updated the status of an own issue while the first
\* owns the other one; the issue is still the second's.
C19_Witness ==
    /\ resp.op = "UpdateIssueStatus"
    /\ resp.status = 200
    /\ \E r \in resp.issues :
          /\ r.submitted_by = 2
          /\ issues[r.id].submitted_by = 2
          /\ \E j \in DOMAIN issues : issues[j].submitted_by = 1


\* The patches of the priority, with and without a status key.
StatusPatchData == PatchDataOf({Absent, "Low"})

\* table differs from the stored issues in the row pk at most.
OnlyRow(table, pk) ==
    /\ DOMAIN table = DOMAIN issues
    /\ \A i \in DOMAIN issues \ {pk} : table[i] = issues[i]

C21_StoredChoices ==
    \A i \in DOMAIN issues :
        /\ issues[i].category \in CATEGORY_CHOICES
        /\ issues[i].priority \in PRIORITY_CHOICES
        /\ issues[i].method_of_logging \in METHOD_CHOICES
        /\ issues[i].status \in STATUS_CHOICES


-----------------------------------------------------------------------------
(* Properties of sessions *)

\* C22: a Logout that succeeds puts its refresh token on the blacklist, no
\* later step takes a token off it, and a Logout presenting a blacklisted
\* refresh token, whoever sends it, is answered 400 and changes nothing.
C22_RevokedStaysRevoked ==
    [][/\ blacklist \subseteq blacklist'
       /\ resp'.op = "Logout" /\ resp'.status = 200 => blacklist' # blacklist
       /\ \A j \in blacklist', u \in 1..MaxStaff :
             LET o == Logout(blacklist', tokens', u, j)
             IN  /\ o.resp.status = 400
                 /\ o.blacklist = blacklist'
      ]_vars

\* A second logout with a revoked refresh token was answered 400.
C22_Witness ==
    /\ resp.op = "Logout"
    /\ resp.status = 400
    /\ resp.detail = "Token is blacklisted"
    /\ blacklist # {}


-----------------------------------------------------------------------------
(* Properties of the Staff table *)

\* C24: AdminDeleteUser deletes the Staff row together with every issue whose
\* submitted_by is that row, so that in every reachable state the submitted_by
\* of each stored issue is the id of a stored Staff row.
C24_OwnersExist ==
    /\ \A i \in DOMAIN issues : issues[i].submitted_by \in DOMAIN staff
    /\ resp.op = "AdminDeleteUser" /\ resp.status = 200 =>
          Cardinality(DOMAIN staff) < staffSeq

\* A staff member who had submitted an issue was deleted: the issue is gone
\* with the row, and the issue of the remaining staff member is still stored.
C24_Witness ==
    /\ resp.op = "AdminDeleteUser"
    /\ resp.status = 200
    /\ issueSeq = MaxIssues
    /\ Cardinality(DOMAIN issues) = 1
    /\ Cardinality(DOMAIN staff) = 1


\* The text fields of a Staff record in a response.
TextOf(r) == {r.first_name, r.last_name, r.email, r.branch, r.role}

\* C25: no response of Register, VerifyRegistrationOTP, RequestLoginOTP,
\* VerifyLoginOTP, ResendOTP, AdminCreateUser or of a staff read endpoint
\* carries an otp; the code these operations issue leaves only in the mail sent
\* to the address of the Staff row it is stored for.
C25_OTPOnlyByMail ==
    /\ \A r \in resp.staff : "otp" \notin DOMAIN r /\ TextOf(r) \cap OTPCodes = {}
    /\ resp.detail \notin OTPCodes
    /\ \A k \in resp.tokens :
          DOMAIN k.claims = {"user_id", "role"} /\ k.claims.role \notin OTPCodes
    /\ resp.op \in {"Register", "LoginRequest", "ResendOTP", "AdminCreateUser"} =>
          \A x \in mails :
              x.otp # None =>
                  \E i \in DOMAIN staff : staff[i].email = x.to /\ staff[i].otp = x.otp
    /\ resp.op \in {"VerifyOTP", "LoginVerify", "ListAllStaff", "AdminGetUser",
                    "GetUserCredentials"} => mails = {}

\* A staff member read its own record while a code is stored for it: the
\* record returned has no otp.
C25_Witness ==
    /\ resp.op = "GetUserCredentials"
    /\ resp.status = 200
    /\ \E r \in resp.staff : staff[r.id].otp \in OTPCodes /\ staff[r.id].email = r.email


\* C26: the email of every stored Staff row ends with the organisation's
\* domain: none of Register, AdminCreateUser, UpdateUserCredentials and
\* AdminUpdateUser stores an address outside it.
C26_EmailInDomain ==
    \A i \in DOMAIN staff : EndsWith(staff[i].email, STAFF_EMAIL_DOMAIN)

\* A staff member asked to change its address to one outside the domain; the
\* save raised and the row kept its address.
C26_Witness ==
    /\ resp.op = "UpdateCredentials"
    /\ resp.status = 500
    /\ resp.detail = "ValueError"
    /\ staff # << >>

\* C27: every stored Staff row whose role is Admin has is_staff = TRUE,
\* whichever of Register, AdminCreateUser, UpdateUserCredentials and
\* AdminUpdateUser set the role.
C27_AdminIsStaff ==
    \A i \in DOMAIN staff : staff[i].role = "Admin" => staff[i].is_staff

\* An Admin made another staff member an Admin, or took the role away again,
\* and a stored row is the result of it.
C27_Witness ==
    /\ resp.op = "AdminUpdateUser"
    /\ resp.status = 200
    /\ \A i \in DOMAIN staff : staff[i].role = "Admin" /\ staff[i].is_staff
    /\ Cardinality(DOMAIN staff) = MaxStaff


-----------------------------------------------------------------------------
(* Properties of authentication *)

\* The issue request was answered 401 or 403, returned no issue, wrote nothing
\* and notified nobody.
Rejected(o) ==
    /\ o.resp.status \in {401, 403}
    /\ o.resp.issues = {}
    /\ o.issues = issues
    /\ o.mails = {}
    /\ o.events = {}

\* C28: list, create, retrieve, status update, field patch and delete of issues
\* and the staff list, requested without a valid token (none, or one this
\* server never issued), are answered 401 or 403, change no stored issue and no
\* Staff row and send and publish nothing.
C28_SessionRequired ==
    \A c \in 0..(MaxStaff + 1) :
        Authenticate(c) = 0 =>
            LET u == Authenticate(c)
                l == ListAllStaff(u)
            IN  /\ Rejected(ListIssuesRequest(u))
                /\ \A d \in CreateData : Rejected(CreateIssueRequest(u, d))
                /\ \A pk \in 1..MaxIssues :
                      /\ Rejected(RetrieveIssueRequest(u, pk))
                      /\ Rejected(DeleteIssueRequest(u, pk))
                      /\ \A d \in StatusData, m, b \in BOOLEAN :
                            Rejected(UpdateIssueStatusRequest(u, pk, d, m, m, b))
                      /\ \A d \in PatchData : Rejected(PatchIssueFieldsRequest(u, pk, d))
                /\ l.resp.status \in {401, 403}
                /\ l.resp.staff = NoStaffData
                /\ l.staff = staff
                /\ l.mails = {}

\* A patch sent without a token was answered 401 while both issues are stored.
C28_Witness ==
    /\ resp.op = "PatchIssueFields"
    /\ resp.status = 401
    /\ DOMAIN issues = 1..MaxIssues

-----------------------------------------------------------------------------
(* Properties of the notification block *)

\* send_mail was called for the address, whatever the transport did with it.
SendAttempted(o, to) == \E x \in o.mails : x.to = to

\* group_send was called: its event went out, or the call raised.
PublishAttempted(o) == o.events # {} \/ o.resp.detail = "group_send raised"

\* With the transport failing for one recipient, a successful CreateIssue has
\* called send_mail for the submitting staff member and for the IT-support
\* mailbox and has called group_send.
CreationRecipientsIndependent ==
    \A u \in Requesters, d \in CreateData :
        ITIssueSerializer_is_valid(d) =>
            LET o == CreateIssue(issues, issueSeq + 1, u, d, now)
            IN  /\ SendAttempted(o, staff[u].email)
                /\ SendAttempted(o, IT_SUPPORT_EMAIL)
                /\ PublishAttempted(o)

\* With the transport failing for one recipient or for both, an
\* UpdateIssueStatus that leaves the issue completed has called send_mail for
\* the submitting staff member and for the IT-support mailbox, each with its
\* own outcome, and has called group_send.
ResolutionRecipientsIndependent ==
    \A u \in Requesters, pk \in DOMAIN issues, d \in StatusData, m, s, b \in BOOLEAN :
        /\ pk \in OwnIssues(issues, u)
        /\ ITIssueUpdateStatusSerializer_is_valid(d)
        /\ ~(m /\ s)
        => LET o == UpdateIssueStatus(issues, u, pk, d, now, m, s, b)
           IN  o.issues[pk].status = "completed" =>
                   /\ Mail(staff[issues[pk].submitted_by].email,
                           "issue_resolved", None, m) \in o.mails
                   /\ Mail(IT_SUPPORT_EMAIL, "issue_resolved", None, s) \in o.mails
                   /\ PublishAttempted(o)

\* C30: on issue creation and on resolution, a delivery failure for one email
\* recipient (the submitting staff member or the IT-support mailbox) prevents
\* neither the send to the other recipient nor the broadcast publish from
\* being attempted.
C30_RecipientsIndependent ==
    /\ CreationRecipientsIndependent
    /\ ResolutionRecipientsIndependent

\* A completing update whose mail to the staff member failed: the IT-support
\* mailbox was written to all the same and the event was published.
ResolutionOneRecipientFailed ==
    /\ resp.op = "UpdateIssueStatus"
    /\ resp.status = 200
    /\ Mail(IssueStaffEmail, "issue_resolved", None, FALSE) \in mails
    /\ Mail(IT_SUPPORT_EMAIL, "issue_resolved", None, TRUE) \in mails
    /\ Cardinality(events) = 1

-----------------------------------------------------------------------------
(* Properties of requests served at the same time *)

\* C31: with UpdateIssueStatus and PatchIssueFields requests on the same issue
\* running at the same time, each reading the row, changing its copy and saving
\* the whole row, a resolution_date that is stored is never replaced, by none
\* or by another value, through the save of any request.
C31_ResolutionDateSurvives ==
    [][\A i \in DOMAIN issues :
          issues[i].resolution_date # NoTime /\ i \in DOMAIN issues' =>
              issues'[i].resolution_date = issues[i].resolution_date]_vars


\* C32: with verification requests carrying the same correct, unexpired code
\* for the same staff member running at the same time, at most one succeeds and
\* the other is answered "Invalid OTP.": a verification or login answered 200
\* (the login with its token pair) finds a code still stored when it saves, none
\* that another request has consumed already.
C32_OneSuccessPerOTP ==
    [][\A r \in Requests :
          /\ Holding(r, {"VerifyOTP", "LoginVerify"})
          /\ inflight'[r].op = "idle"
          /\ resp'.status = 200
          => staff[inflight[r].id].otp # None]_vars

-----------------------------------------------------------------------------
(* Properties of who is let in *)

\* C33: a token pair is issued only to a staff member whose is_verified is
\* True when the login is verified: whatever address and code a VerifyLoginOTP
\* carries, a 200 with its tokens goes to a row that has passed
\* VerifyRegistrationOTP.
C33_TokensOnlyForVerified ==
    \A e \in VerifyEmails, c \in SubmittedCodes :
        LET o == LoginVerifyOTP(staff, staffSeq, tokens, e, c, now)
        IN  o.resp.status = 200 =>
                \A i \in HoldersIn(staff, e) : staff[i].is_verified


\* C34: a row with role Admin is created, or a row is promoted to Admin, only
\* by AdminCreateUser or AdminUpdateUser, which an authenticated Admin runs:
\* no Register and no UpdateUserCredentials of a User leaves a stored role
\* Admin that was not there before.
C34_AdminOnlyByAdmin ==
    [][\A i \in DOMAIN staff' :
          /\ staff'[i].role = "Admin"
          /\ i \in DOMAIN staff => staff[i].role # "Admin"
          => resp'.op \in {"AdminCreateUser", "AdminUpdateUser"}]_vars

-----------------------------------------------------------------------------
(* Properties of the resolution notice *)

\* C35: an UpdateIssueStatus sends a resolution mail or publishes an
\* issue_resolved event only when it moves the issue from another status to
\* completed; an update of an issue that is completed and stays completed, as
\* one that only changes work_done, sends no mail and publishes no event.
C35_NoticeOnTransitionOnly ==
    \A u \in Requesters, pk \in DOMAIN issues, d \in NotedStatusData, b \in BOOLEAN :
        pk \in OwnIssues(issues, u) /\ ITIssueUpdateStatusSerializer_is_valid(d) =>
            LET o == UpdateIssueStatus(issues, u, pk, d, now, TRUE, TRUE, b)
            IN  o.mails # {} \/ o.events # {} =>
                    /\ issues[pk].status # "completed"
                    /\ o.issues[pk].status = "completed"

-----------------------------------------------------------------------------
(* Properties of failed and repeated verifications *)

\* The handler refused the code with NotFound, InvalidOTP or Expired.
VerificationFailed(o) ==
    o.resp.detail \in {"Staff not found.", "Invalid OTP.", "OTP expired."}

\* Either verification, at time t, on the table and tokens an outcome left.
VerifyAfter(login, o, email, otp, t) ==
    IF login
    THEN LoginVerifyOTP(o.staff, o.staffSeq, o.tokens, email, otp, t)
    ELSE VerifyOTP(o.staff, o.staffSeq, o.tokens, email, otp, t)

\* C36: a VerifyRegistrationOTP or VerifyLoginOTP that fails with NotFound,
\* InvalidOTP or Expired leaves every Staff row (otp, otp_created_at and
\* is_verified included) and the tokens as they were, and after such failures,
\* one or several, a call with the stored code not older than 300 seconds
\* succeeds.
C36_FailureLeavesOTP ==
    \A login \in BOOLEAN, e \in VerifyEmails, c \in SubmittedCodes :
        LET start == Result(resp, staff, staffSeq, tokens, {})
            o == VerifyAfter(login, start, e, c, now)
        IN  VerificationFailed(o) =>
                /\ o.resp.status \in {400, 404}
                /\ o.staff = staff
                /\ o.tokens = tokens
                /\ o.mails = {}
                /\ LET o2 == VerifyAfter(~login, o, e, c, now)
                   IN  /\ VerificationFailed(o2)
                       /\ \A i \in HoldersIn(staff, e), t \in Later, last \in BOOLEAN :
                             /\ staff[i].otp # None
                             /\ ~OTPExpired(staff[i].otp_created_at, t)
                             => VerifyAfter(last, o2, e, staff[i].otp, t).resp.status = 200

\* A verification was refused for a wrong code while the code stored for the
\* row is still inside its window.
C36_Witness ==
    /\ resp.op \in {"VerifyOTP", "LoginVerify"}
    /\ resp.detail = "Invalid OTP."
    /\ \E i \in DOMAIN staff :
          /\ staff[i].otp # None
          /\ ~OTPExpired(staff[i].otp_created_at, now)
          /\ ~staff[i].is_verified

-----------------------------------------------------------------------------
(* Properties of the role behind a token *)

\* C37: the admin endpoints decide by the role stored for the staff member,
\* not by the role claim of the access token: presented with a token issued
\* while the staff member was Admin, after the stored role became User, every
\* admin operation is answered 403 and reads and writes nothing; a token issued
\* to a User who is Admin by now is let through.
C37_StoredRoleDecides ==
    \A c \in 1..Len(tokens) :
        LET u == Authenticate(c)
        IN  /\ u # 0 /\ tokens[c].role = "Admin" /\ staff[u].role = "User" =>
                  /\ Forbidden(ListAllStaff(u))
                  /\ \A d \in RegisterData, code \in OTPCodes, ok \in BOOLEAN :
                        Forbidden(AdminCreateUser(u, d, code, ok))
                  /\ \A t \in 1..MaxStaff :
                        /\ Forbidden(AdminGetUser(u, t))
                        /\ Forbidden(AdminDeleteUser(u, t))
                        /\ \A d \in UpdateData, code \in OTPCodes, ok \in BOOLEAN :
                              Forbidden(AdminUpdateUser(u, t, d, code, ok))
            /\ u # 0 /\ tokens[c].role = "User" /\ staff[u].role = "Admin" =>
                  ListAllStaff(u).resp.status = 200

\* The staff list was refused with 403 to a token that carries the role claim
\* Admin: its holder's stored role is User by now.
C37_Witness ==
    /\ resp.op = "ListAllStaff"
    /\ resp.status = 403
    /\ \E c \in 1..Len(tokens) :
          /\ Authenticate(c) # 0
          /\ tokens[c].role = "Admin"
          /\ staff[Authenticate(c)].role = "User"

-----------------------------------------------------------------------------
(* Properties of requests that end in an error *)

\* The Staff handler answered with an error and left the Staff table as it was.
ErrorLeavesStore(o) ==
    o.resp.status >= 400 => o.staff = staff /\ o.staffSeq = staffSeq

\* C38: whenever Register, UpdateUserCredentials or AdminUpdateUser ends with
\* an error response, the failure of the OTP or onboarding mail included, the
\* Staff table is unchanged: no row was created and no field of a row modified.
C38_ErrorLeavesStaff ==
    [][/\ resp'.op = "UpdateCredentials" /\ resp'.status >= 400 =>
              staff' = staff /\ staffSeq' = staffSeq
       /\ \A d \in RegisterData, code \in OTPCodes, ok \in BOOLEAN :
              ErrorLeavesStore(Register(staff, staffSeq, tokens, d, code, ok, now))
       /\ \A u \in 1..MaxStaff, t \in 1..MaxStaff, d \in UpdateData,
             code \in OTPCodes, ok \in BOOLEAN :
              u \in DOMAIN staff =>
                  ErrorLeavesStore(AdminUpdateUser(u, t, d, code, ok))]_vars

-----------------------------------------------------------------------------
(* Properties of recovery *)

\* C39: an unverified staff member can always still be verified: in every
\* reachable state, its code expired, replaced, cleared or not, a ResendOTP for
\* its address is answered 200 and mails a new code, and a
\* VerifyRegistrationOTP with that code, at once or up to 300 seconds later,
\* is answered 200 and leaves the row verified with the code cleared.
C39_UnverifiedCanVerify ==
    \A i \in DOMAIN staff, code \in OTPCodes :
        ~staff[i].is_verified =>
            LET sent == ResendOTP(staff, staffSeq, tokens, staff[i].email, code, TRUE, now)
            IN  /\ sent.resp.status = 200
                /\ Mail(staff[i].email, "otp_register", code, TRUE) \in sent.mails
                /\ \A age \in {0, OTP_EXPIRY_SECONDS - 1, OTP_EXPIRY_SECONDS} :
                      LET o == VerifyOTP(sent.staff, sent.staffSeq, sent.tokens,
                                         staff[i].email, code, now + age)
                      IN  /\ o.resp.status = 200
                          /\ o.staff[i].is_verified
                          /\ o.staff[i].otp = None

\* The only staff member was verified after the clock had advanced past the
\* window, with a code stored at that later time.
C39_Witness ==
    /\ resp.op = "VerifyOTP"
    /\ resp.status = 200
    /\ staffSeq = 1
    /\ \E i \in DOMAIN staff :
          /\ staff[i].is_verified
          /\ staff[i].otp_created_at >= OTP_EXPIRY_SECONDS + 1
          /\ staff[i].otp_created_at = now

-----------------------------------------------------------------------------
(* Default admin at startup *)

DefaultAdminEmail == "admin@paramount.co.ke"

\* The keyword arguments create_default_admin calls create_superuser with.
DefaultAdminArgs ==
    [email |-> DefaultAdminEmail, first_name |-> Absent, last_name |-> Absent,
     password |-> "Admin@123", otp |-> "123456", is_verified |-> TRUE]

\* What a manager call did: the exception it raised ("" for none) and the table.
Created(raised, table, seq) == [raised |-> raised, staff |-> table, staffSeq |-> seq]

\* StaffManager.create_user: self.model(...), set_password, save.
create_user(table, seq, args, is_staff) ==
    IF args.email = ""
    THEN Created("ValueError", table, seq)
    ELSE LET row == SaveRow([first_name |-> args.first_name,
                             last_name |-> args.last_name, email |-> args.email,
                             is_verified |-> args.is_verified, otp |-> args.otp,
                             otp_created_at |-> NoTime, is_staff |-> is_staff,
                             role |-> "User", branch |-> "Headquarters"])
         IN  IF SaveRaises(row)
             THEN Created("ValueError", table, seq)
             ELSE IF HoldersIn(table, args.email) # {}
             THEN Created("IntegrityError", table, seq)
             ELSE Created("", Put(table, seq + 1, row), seq + 1)

\* StaffManager.create_superuser(email, first_name, last_name, password=None,
\* **extra_fields): a call that leaves a required parameter out raises TypeError
\* before the body runs.
create_superuser(table, seq, args) ==
    IF args.first_name = Absent \/ args.last_name = Absent
    THEN Created("TypeError", table, seq)
    ELSE create_user(table, seq, args, TRUE)

\* create_default_admin: the table it leaves and the line it prints.
create_default_admin(table, seq) ==
    IF HoldersIn(table, DefaultAdminEmail) # {}
    THEN [printed |-> "", staff |-> table, staffSeq |-> seq]
    ELSE LET o == create_superuser(table, seq, DefaultAdminArgs)
         IN  [printed |-> IF o.raised = ""
                          THEN "Default admin user created successfully."
                          ELSE "Error creating default admin",
              staff |-> o.staff, staffSeq |-> o.staffSeq]

\* The post_migrate signal of the Staff app: manage.py migrate has run.
post_migrate ==
    LET o == create_default_admin(staff, staffSeq)
    IN  /\ o.staffSeq <= MaxStaff
        /\ staff' = o.staff
        /\ staffSeq' = o.staffSeq
        /\ resp' = Response("create_default_admin", 0, o.printed)
        /\ mails' = {}
        /\ events' = {}
        /\ UNCHANGED <<tokens, now, issues, issueSeq, blacklist, inflight>>

\* Registrations under the address of a staff member or of the default admin.
BootstrapEmails == {IssueStaffEmail, DefaultAdminEmail}

BootstrapStaffData ==
    [first_name : {"Ann"}, last_name : {"Lee"}, email : BootstrapEmails,
     branch : {Absent}, role : {Absent, "Admin"}]

\* Migrations run, before and between the requests that register and verify
\* staff members.
BootstrapSpecNext ==
    \/ post_migrate
    \/ \E d \in BootstrapStaffData, code \in OTPCodes :
          StaffRegisterView_post(d, code, TRUE)
    \/ \E e \in BootstrapEmails, code \in OTPCodes : ResendOTPView_post(e, code, TRUE)
    \/ \E e \in BootstrapEmails, o \in OTPCodes : OTPVerifyView_post(e, o)

SpecBootstrap == Init /\ [][BootstrapSpecNext]_vars

-----------------------------------------------------------------------------
(* Properties of the default admin *)

\* C40: a run of the post-migrate bootstrap on a Staff table without a row of
\* admin@paramount.co.ke leaves a verified row of that address with admin
\* privileges, and a second run after it leaves the table as the first did,
\* with exactly one row of that address.
C40_BootstrapCreatesAdmin ==
    LET first == create_default_admin(staff, staffSeq)
        again == create_default_admin(first.staff, first.staffSeq)
    IN  /\ HoldersIn(staff, DefaultAdminEmail) = {} =>
              \E i \in HoldersIn(first.staff, DefaultAdminEmail) :
                  /\ first.staff[i].is_verified
                  /\ first.staff[i].is_staff
        /\ again.staff = first.staff
        /\ Cardinality(HoldersIn(again.staff, DefaultAdminEmail)) = 1

====
